---- MODULE Spec2Model ----
(***************************************************************************)
(* A model of the trading bot's core: the candle aggregator and position   *)
(* lifecycle of strategies.py, the REST request wrapper and the streaming  *)
(* worker / subscription bookkeeping of connectors/binance.py and          *)
(* connectors/bitmex.py, and the shutdown path of root_component.py.       *)
(*                                                                         *)
(* Prices, sizes and quantities are integers (the code uses floats; the    *)
(* comparisons and sums modelled here are exact on the values used).       *)
(***************************************************************************)
EXTENDS Integers, Sequences, FiniteSets, TLC

VARIABLES
    cfg,                \* Strategy.__init__ arguments: variant, platform, risk parameters
    candles,            \* Strategy.candles
    trades,             \* Strategy.trades
    ongoing_position,   \* Strategy.ongoing_position
    orders,             \* the exchange's view of the orders this strategy submitted
    timers,             \* order ids with a pending threading.Timer for _check_order_status
    pollpc,             \* a poll that saw "filled" and is between its two writes: order id, or 0
    opening,            \* the Trade _open_position has built and not yet appended (between
                        \* lines 183 and 188), as a one-element sequence, or <<>>
    tick,               \* the last trade tick dispatched and what the handler did with it; unknown
                        \* counts its entry orders taken by the exchange whose POST returned nothing
    nticks,             \* number of trade ticks dispatched so far
    run,                \* accumulators over the ticks folded into the last candle
    reqLog,             \* one entry per _make_request call: what happened and what it returned
    reconnect,          \* BinanceClient.reconnect
    ws_connected,       \* BinanceClient.ws_connected
    ws_subscriptions,   \* BinanceClient.ws_subscriptions: channel -> list of symbols
    ws_id,              \* BinanceClient._ws_id
    sock,               \* the WebSocketApp's connection: "none", "connecting", "open", "closed"
    wpc,                \* where the streaming worker is in _start_ws
    oit,                \* where the worker's _on_open is in its loops
    call,               \* the subscribe_channel call of each thread: its arguments and position
    uipc,               \* the UI thread: "run", "closing" (reconnect cleared), "shut"
    conn,               \* per connection: what _on_open found recorded, sent and appended
    counts,             \* connections opened, drops and UI calls so far
    prices,             \* the client's price cache for the strategy's symbol: bid and ask
    calc,               \* the last evaluation of a pure computation: its inputs and result
    body_index,         \* StrategyEditor._body_index
    body_widgets,       \* StrategyEditor.body_widgets and additional_parameters, per row
    strategies,         \* each client's strategies table: exchange -> entries in insertion order
    it,                 \* the dict iterator of a worker's pass over a strategies table
    passlog             \* how the last pass over a strategies table ended

stratVars == <<cfg, candles, trades, ongoing_position, orders, timers, pollpc, opening, tick,
               nticks, run>>
restVars  == <<reqLog>>
wsVars    == <<reconnect, ws_connected, ws_subscriptions, ws_id, sock, wpc, oit, call, uipc,
               conn, counts>>
auxVars   == <<prices, calc>>
uiVars    == <<body_index, body_widgets, strategies, it, passlog>>
vars      == <<stratVars, restVars, wsVars, auxVars, uiVars>>

(***************************************************************************)
(* Bounds of the model.                                                    *)
(***************************************************************************)
MaxPrice == 3       \* tick prices are 1..MaxPrice
MaxSize  == 2       \* tick sizes are 1..MaxSize
MaxGap   == 1       \* a tick skips at most MaxGap whole buckets
MaxTicks == 2       \* ticks dispatched in one behaviour
MaxOrders == 3      \* orders the exchange accepts in one behaviour

Prices == 1..MaxPrice
Sizes  == 1..MaxSize

\* Python's None where a number is expected (an entry price, a trade size, a
\* balance that is not there), and the exception a request raised
None == -1
Raised == -2

\* the no-result value of a REST call
NoResult == "None"

(***************************************************************************)
(* strategies.py: the candle aggregator (Strategy.parse_trades).           *)
(***************************************************************************)
TF_EQUIV_1m == 60
tf_equiv == TF_EQUIV_1m * 1000

Last(s) == s[Len(s)]

Candle(ts, open, high, low, close, volume) ==
    [timestamp |-> ts, open |-> open, high |-> high, low |-> low, close |-> close,
     volume |-> volume]

\* lines 66, 86, 113: which branch a timestamp takes
Branch(last_candle, timestamp) ==
    IF timestamp < last_candle.timestamp + tf_equiv THEN "same"
    ELSE IF timestamp >= last_candle.timestamp + 2 * tf_equiv THEN "missing"
    ELSE "new"

\* lines 82, 109, 122: the value parse_trades returns
TickType(last_candle, timestamp) ==
    IF Branch(last_candle, timestamp) = "same" THEN "same_candle" ELSE "new_candle"

\* a candle update that overwrites the volume instead of adding to it
UpdateCandleOverwritingVolume(c, price, size) ==
    [c EXCEPT !.close = price,
              !.volume = size,
              !.high = IF price > c.high THEN price ELSE c.high,
              !.low = IF price > c.high THEN c.low
                      ELSE IF price < c.low THEN price ELSE c.low]

\* lines 68-74
UpdateCandle(c, price, size) ==
    [c EXCEPT !.close = price,
              !.volume = c.volume + size,
              !.high = IF price > c.high THEN price ELSE c.high,
              !.low = IF price > c.high THEN c.low
                      ELSE IF price < c.low THEN price ELSE c.low]

\* a missing-candle count that forgets the bucket the tick itself opens
MissingCountOffByOne(last_candle, timestamp) ==
    (timestamp - last_candle.timestamp) \div tf_equiv

\* line 88; int() of a positive quotient is its floor
MissingCount(last_candle, timestamp) ==
    ((timestamp - last_candle.timestamp) \div tf_equiv) - 1

\* a synthetic candle that stays in its predecessor's bucket
FlatCandleSameBucket(last_candle) ==
    Candle(last_candle.timestamp, last_candle.close, last_candle.close,
           last_candle.close, last_candle.close, 0)

\* lines 94-97
FlatCandle(last_candle) ==
    Candle(last_candle.timestamp + tf_equiv, last_candle.close, last_candle.close,
           last_candle.close, last_candle.close, 0)

\* lines 93-101
RECURSIVE FillMissing(_, _)
FillMissing(cs, n) ==
    IF n <= 0 THEN cs ELSE FillMissing(Append(cs, FlatCandle(Last(cs))), n - 1)

\* a new candle that opens at its predecessor's close
SeedCandleOpeningAtClose(last_candle, price, size) ==
    Candle(last_candle.timestamp + tf_equiv, last_candle.close,
           IF price > last_candle.close THEN price ELSE last_candle.close,
           IF price < last_candle.close THEN price ELSE last_candle.close, price, size)

\* lines 103-105 and 114-116
SeedCandle(last_candle, price, size) ==
    Candle(last_candle.timestamp + tf_equiv, price, price, price, price, size)

\* a parse_trades that folds a late tick into the candle before the last
ParseCandlesFoldingLate(cs, price, size, timestamp) ==
    LET last_candle == Last(cs)
    IN  IF timestamp < last_candle.timestamp /\ Len(cs) > 1
        THEN [cs EXCEPT ![Len(cs) - 1] = UpdateCandle(cs[Len(cs) - 1], price, size)]
        ELSE IF timestamp < last_candle.timestamp + tf_equiv
        THEN [cs EXCEPT ![Len(cs)] = UpdateCandle(last_candle, price, size)]
        ELSE Append(cs, SeedCandle(last_candle, price, size))

\* the candle list after parse_trades(price, size, timestamp)
ParseCandles(cs, price, size, timestamp) ==
    LET last_candle == Last(cs)
        br == Branch(last_candle, timestamp)
    IN  IF br = "same"
        THEN [cs EXCEPT ![Len(cs)] = UpdateCandle(last_candle, price, size)]
        ELSE IF br = "missing"
        THEN LET filled == FillMissing(cs, MissingCount(last_candle, timestamp))
             IN  Append(filled, SeedCandle(Last(filled), price, size))
        ELSE Append(cs, SeedCandle(last_candle, price, size))

(***************************************************************************)
(* connectors: the REST request wrapper (_make_request).                   *)
(***************************************************************************)
\* what the single requests.get/post/delete call can do
HttpOutcomes == {"exception", "200_json", "200_nonjson", "2xx_json", "2xx_nonjson",
                 "err_json", "err_nonjson"}

IsJsonBody(outcome) == outcome \in {"200_json", "2xx_json", "err_json"}

\* binance.py lines 109-137, bitmex.py lines 83-111: "json" is the decoded body,
\* NoResult the no-result value, "raise" an exception leaving the wrapper
\* (response.json() on a body that is not JSON)
MakeRequest(outcome) ==
    IF outcome = "exception" THEN NoResult
    ELSE IF outcome = "200_json" THEN "json"
    ELSE IF outcome = "200_nonjson" THEN "raise"
    ELSE IF IsJsonBody(outcome) THEN NoResult
    ELSE "raise"

\* what the wrapper writes to the log: an error line whenever it gets as far as
\* logger.error
RequestLogged(outcome) ==
    outcome = "exception" \/ (outcome \notin {"200_json", "200_nonjson"} /\ IsJsonBody(outcome))

RestResults == {MakeRequest(o) : o \in HttpOutcomes}

(***************************************************************************)
(* Order sizing and placement (binance.py get_trade_size, place_order).    *)
(***************************************************************************)
\* Python's round() of the quotient a / b (b > 0, a >= 0): nearest, ties to even
RoundDiv(a, b) ==
    LET q == a \div b
        r == a % b
    IN  IF 2 * r < b THEN q
        ELSE IF 2 * r > b THEN q + 1
        ELSE IF q % 2 = 0 THEN q ELSE q + 1

\* binance.py lines 536-538: (balance * balance_pct / 100) / price, then
\* round(trade_size / lot_size) * lot_size
GetTradeSize(balance, balance_pct, price, lot_size) ==
    IF balance = None THEN None
    ELSE RoundDiv(balance * balance_pct, 100 * price * lot_size) * lot_size

\* binance.py line 256: int(quantity / lot_size) * lot_size
OrderQuantity(quantity, lot_size) == (quantity \div lot_size) * lot_size

(***************************************************************************)
(* The exchange as the REST calls see it.                                  *)
(***************************************************************************)
\* an order the exchange holds; its id is its index in orders
ExchOrder(kind, side, qty, status, price) ==
    [kind |-> kind, side |-> side, qty |-> qty, status |-> status,
     avg_price |-> IF status = "filled" THEN price ELSE 0,
     executed_qty |-> IF status = "filled" THEN qty ELSE 0]

\* models.py lines 118-134
OrderStatus(order_id, status, avg_price, executed_qty) ==
    [ret |-> "json", order_id |-> order_id, status |-> status, avg_price |-> avg_price,
     executed_qty |-> executed_qty]

\* a call that returned no OrderStatus: ret is NoResult or "raise"
NoStatus(ret) ==
    [ret |-> ret, order_id |-> 0, status |-> "", avg_price |-> 0, executed_qty |-> 0]

\* what one POST of an order can lead to: what _make_request returns, whether the
\* exchange took the order, and the status it gave it; a decoded answer means
\* the order was taken
PlaceOutcomes(n) ==
    {po \in [ret : RestResults, accepted : BOOLEAN, status : {"new", "filled"}] :
        /\ po.ret = "json" => po.accepted
        /\ po.accepted => n < MaxOrders
        /\ ~po.accepted => po.status = "new"}

NoCall == [ret |-> NoResult, accepted |-> FALSE, status |-> "new"]

Futures(platform) == platform # "binance_spot"

\* binance.py lines 240-284: place_order on the handler state hs; the result is
\* <<state, return value>> with "raise" for an exception.  ep is what the
\* myTrades request of _get_execution_price returns (spot only, lines 276-280)
PlaceOrder(hs, kind, quantity, side, po, ep) ==
    LET price == Last(hs.candles).close
        qty   == OrderQuantity(quantity, cfg.lot_size)
        os    == IF po.accepted
                 THEN Append(hs.orders, ExchOrder(kind, side, qty, po.status, price))
                 ELSE hs.orders
        hs1   == [hs EXCEPT !.orders = os]
        o     == Last(os)
    IN  IF po.ret # "json" THEN <<hs1, NoStatus(po.ret)>>
        ELSE IF Futures(cfg.platform)
        THEN <<hs1, OrderStatus(Len(os), o.status, o.avg_price, o.executed_qty)>>
        ELSE IF o.status # "filled"
        THEN <<hs1, OrderStatus(Len(os), o.status, 0, o.executed_qty)>>
        ELSE IF ep = "raise" THEN <<hs1, NoStatus("raise")>>
        ELSE <<hs1, OrderStatus(Len(os), o.status,
                                IF ep = NoResult THEN 0 ELSE o.avg_price, o.executed_qty)>>

(***************************************************************************)
(* strategies.py: the position lifecycle.                                  *)
(***************************************************************************)
\* a pnl is an exact fraction
Frac(num, den) == [num |-> num, den |-> den]

\* a Trade that is built with status closed
TradeBornClosed(side, entry_price, quantity, entry_id) ==
    [side |-> side, entry_price |-> entry_price, status |-> "closed", pnl |-> Frac(0, 1),
     quantity |-> quantity, entry_id |-> entry_id]

\* models.py lines 137-147, as _open_position builds it (lines 185-187)
Trade(side, entry_price, quantity, entry_id) ==
    [side |-> side, entry_price |-> entry_price, status |-> "open", pnl |-> Frac(0, 1),
     quantity |-> quantity, entry_id |-> entry_id]

Min(a, b) == IF a < b THEN a ELSE b

\* lines 203-217: tp_triggered or sl_triggered
TpSlTriggered(trade, price) ==
    IF trade.side = "long"
    THEN \/ price * 100 <= trade.entry_price * (100 - cfg.stop_loss)
         \/ price * 100 >= trade.entry_price * (100 + cfg.take_profit)
    ELSE \/ price * 100 >= trade.entry_price * (100 + cfg.stop_loss)
         \/ price * 100 <= trade.entry_price * (100 - cfg.take_profit)

\* lines 190-238: _check_tp_sl on trade i.  base is what get_balances gives for
\* the base asset (spot only): Raised, None (request failed or asset absent)
\* or the free amount
CheckTpSl(hs, i, base, po, ep) ==
    LET trade == hs.trades[i]
        price == Last(hs.candles).close
    IN  IF ~TpSlTriggered(trade, price) THEN hs
        ELSE LET order_side == IF trade.side = "long" THEN "SELL" ELSE "BUY"
                 spot == ~Futures(cfg.platform)
                 q == IF spot /\ base \notin {None, Raised} /\ order_side = "SELL"
                      THEN Min(base, trade.quantity) ELSE trade.quantity
                 hs1 == [hs EXCEPT !.trades[i].quantity = q]
                 r == PlaceOrder(hs1, "exit", q, order_side, po, ep)
                 hs2 == [r[1] EXCEPT !.exit_orders = @ + 1, !.exit_qty = q]
             IN  IF spot /\ base = Raised THEN [hs EXCEPT !.raised = TRUE]
                 ELSE IF r[2].ret = "raise" THEN [hs2 EXCEPT !.raised = TRUE]
                 ELSE IF r[2].ret = NoResult THEN hs2
                 ELSE [hs2 EXCEPT !.trades[i].status = "closed", !.ongoing = FALSE,
                                  !.closed = @ + 1, !.exit_status = r[2].status]

\* lines 78-80: the loop over self.trades
RECURSIVE TpSlLoop(_, _, _, _, _)
TpSlLoop(hs, i, base, po, ep) ==
    IF i > Len(hs.trades) \/ hs.raised THEN hs
    ELSE IF hs.trades[i].status = "open" /\ hs.trades[i].entry_price # None
    THEN TpSlLoop(CheckTpSl([hs EXCEPT !.tpsl_checks = @ + 1], i, base, po, ep),
                  i + 1, base, po, ep)
    ELSE TpSlLoop(hs, i + 1, base, po, ep)

\* an _open_position that sizes and places every signal
RejectsNothing(platform, signal_result) == FALSE

\* lines 157-159: short is not allowed on spot platforms
RejectsShort(platform, signal_result) == platform = "binance_spot" /\ signal_result = -1

\* an _open_position that starts a poll for every order it placed
PollsEveryEntry(status) == TRUE

\* lines 179-183: a poll is started unless the order came back filled
PollsEntry(status) == status # "filled"

\* lines 149-188: _open_position.  balance is what get_balances gives for the
\* quote asset: Raised, None or the usable amount
OpenPosition(hs, signal_result, balance, po, ep) ==
    IF RejectsShort(cfg.platform, signal_result) THEN hs
    ELSE IF balance = Raised THEN [hs EXCEPT !.raised = TRUE, !.sizings = @ + 1]
    ELSE LET trade_size == GetTradeSize(balance, cfg.balance_pct,
                                        Last(hs.candles).close, cfg.lot_size)
             order_side == IF signal_result = 1 THEN "buy" ELSE "sell"
             position_side == IF signal_result = 1 THEN "long" ELSE "short"
             r == PlaceOrder(hs, "entry", trade_size, order_side, po, ep)
             hs1 == [r[1] EXCEPT !.entry_orders = @ + 1, !.signal_logs = @ + 1,
                                 !.sizings = @ + 1]
             st == r[2]
         IN  IF trade_size = None THEN [hs EXCEPT !.sizings = @ + 1]
             ELSE IF st.ret = "raise" THEN [hs1 EXCEPT !.raised = TRUE]
             ELSE IF st.ret = NoResult
             THEN [hs1 EXCEPT !.unknown = IF po.accepted THEN @ + 1 ELSE @]
             ELSE [hs1 EXCEPT
                     !.ongoing = TRUE,
                     !.entry_status = st.status,
                     !.entry_avg = st.avg_price,
                     !.timers = IF PollsEntry(st.status) THEN @ \cup {st.order_id} ELSE @,
                     !.trades = Append(@, Trade(position_side,
                                                IF st.status = "filled" THEN st.avg_price
                                                ELSE None,
                                                st.executed_qty, st.order_id))]

\* a breakout signal that does not look at the volume
BreakoutSignalAnyVolume(cs) ==
    LET last == cs[Len(cs)]
        prev == cs[Len(cs) - 1]
    IN  IF last.close > prev.high THEN 1 ELSE IF last.close < prev.low THEN -1 ELSE 0

\* lines 344-356: BreakoutStrategy._check_signal
BreakoutSignal(cs) ==
    LET last == cs[Len(cs)]
        prev == cs[Len(cs) - 1]
    IN  IF last.close > prev.high /\ last.volume > cfg.min_volume THEN 1
        ELSE IF last.close < prev.low /\ last.volume > cfg.min_volume THEN -1
        ELSE 0

NaN == -1

\* a trend signal whose oscillator levels are inclusive
TechnicalSignalInclusive(rsi, macd_line, macd_signal) ==
    IF rsi # NaN /\ rsi <= 30 /\ macd_line > macd_signal THEN 1
    ELSE IF rsi # NaN /\ rsi >= 70 /\ macd_line < macd_signal THEN -1
    ELSE 0

\* lines 303-319: TechnicalStrategy._check_signal on the indicator values of the
\* second-to-last candle; a comparison with NaN is false
TechnicalSignal(rsi, macd_line, macd_signal) ==
    IF rsi # NaN /\ rsi < 30 /\ macd_line > macd_signal THEN 1
    ELSE IF rsi # NaN /\ rsi > 70 /\ macd_line < macd_signal THEN -1
    ELSE 0

(***************************************************************************)
(* binance.py: the streaming client's state after __init__ (lines 67-74).  *)
(***************************************************************************)
MaxEvents == 2      \* connection drops, failed attempts and UI subscribe calls in one behaviour

Symbols  == {"BTCUSDT", "ETHUSDT"}
Channels == <<"bookTicker", "aggTrade">>

\* no subscribe_channel call in progress
IdleCall ==
    [pc |-> "idle", contracts |-> <<>>, channel |-> "", reconnection |-> FALSE,
     has_param |-> FALSE, recorded0 |-> FALSE, again |-> FALSE, appended |-> FALSE,
     sent |-> FALSE, delivered |-> FALSE, id_read |-> 0, consumed |-> FALSE]

NoConn == [subs0 |-> [c \in {"bookTicker", "aggTrade"} |-> <<>>], sent |-> <<>>, appended |-> 0]

InitWs ==
    /\ reconnect = TRUE
    /\ ws_connected = FALSE
    /\ ws_subscriptions = [c \in {"bookTicker", "aggTrade"} |-> <<>>]
    /\ ws_id = 1
    /\ sock = "none"
    /\ wpc = "check"
    /\ oit = [stage |-> 0, i |-> 0]
    /\ call = [ui |-> IdleCall, worker |-> IdleCall]
    /\ uipc = "run"
    /\ conn = NoConn
    /\ counts = [opens |-> 0, drops |-> 0, ui_calls |-> 0]

(***************************************************************************)
(* strategy_component.py: the strategy editor after __init__ (lines        *)
(* 34-114) and each client's strategy table (binance.py line 63, bitmex.py *)
(* line 57).  A table is a dict: its entries in insertion order.           *)
(***************************************************************************)
MaxRows == 2        \* rows the user adds in one behaviour

Exchanges == {"Binance", "Bitmex"}

\* no pass over a table in progress
IdlePass == [site |-> "idle", exchange |-> "", size0 |-> 0, pos |-> 0]

NoPass == [site |-> "none", outcome |-> ""]

InitUi ==
    /\ body_index = 0
    /\ body_widgets = <<>>
    /\ strategies = [exchange \in Exchanges |-> <<>>]
    /\ it = IdlePass
    /\ passlog = NoPass

(***************************************************************************)
(* The inputs of the model.                                                *)
(***************************************************************************)
\* tick timestamps around the last candle's bucket start T: a late tick, and the
\* last millisecond of a bucket and the first of the next, for the current
\* bucket and the ones after it
TickTimes(T) ==
    {T - 1} \cup
    {t \in {T + k * tf_equiv - off : k \in 1..(MaxGap + 2), off \in {0, 1}} :
        t < T + (MaxGap + 2) * tf_equiv}

\* the ticks of the lifecycle specification stay in the bucket or open the next
NearTimes(T) == {T, T + tf_equiv}

\* what get_balances gives for an asset: the request raised, it failed or the
\* asset is absent, or the amount
QuoteOutcomes == {Raised, None, 12}

\* the free amount of the base asset on the account, and what get_balances gives
\* for it
FreeAmounts == {2}
BaseOutcomes(free) == {Raised, None, free}

RsiValues  == {29, 30, 70, 71, NaN}
MacdValues == {0, 1}
TechnicalSignals ==
    {TechnicalSignal(r, m, g) : r \in RsiValues, m \in MacdValues, g \in MacdValues}

Configs ==
    [variant : {"Technical", "Breakout"}, platform : {"binance_futures", "binance_spot"},
     take_profit : {50}, stop_loss : {50}, min_volume : {1}, balance_pct : {50},
     lot_size : {2}]

\* the historical candles _switch_strategy loads: two closed flat buckets
History(p) ==
    <<Candle(0, p, p, p, p, 1), Candle(tf_equiv, p, p, p, p, 1)>>

OpenTrades(ts) == {i \in 1..Len(ts) : ts[i].status = "open"}

(***************************************************************************)
(* The trade-tick handler: binance.py lines 459-466 (bitmex.py 277-288),   *)
(* parse_trades and check_trade.                                           *)
(***************************************************************************)
\* a check_trade that forgets the ongoing_position guard
EvaluatesWhileOpen(variant, tick_type, ongoing) ==
    IF variant = "Technical" THEN tick_type = "new_candle" ELSE TRUE

\* a check_trade whose trend variant evaluates on every tick while flat
EvaluatesEveryTick(variant, tick_type, ongoing) == ~ongoing

\* lines 321-334 and 358-370: whether check_trade evaluates the signal
Evaluates(variant, tick_type, ongoing) ==
    IF variant = "Technical" THEN tick_type = "new_candle" /\ ~ongoing ELSE ~ongoing

\* the accumulators over the ticks folded into the last candle: its volume when
\* the folding began, and the sum, maximum and minimum of the ticks since
RunAfter(r, tick_type, price, size) ==
    IF tick_type = "same_candle"
    THEN [r EXCEPT !.n = @ + 1,
                   !.sum = @ + size,
                   !.hi = IF price > @ THEN price ELSE @,
                   !.lo = IF price < @ THEN price ELSE @]
    ELSE [n |-> 1, vol0 |-> 0, sum |-> size, hi |-> price, lo |-> price]

\* stalled: the handler's thread is held up in _open_position after it started
\* the Timer (line 183) and before it appends the Trade (line 188)
DispatchTick(price, size, timestamp, stalled) ==
    /\ nticks < MaxTicks
    /\ opening = <<>>
    /\ LET res  == TickType(Last(candles), timestamp)
           spot == ~Futures(cfg.platform)
           exits == res = "same_candle" /\
                    \E i \in OpenTrades(trades) :
                        trades[i].entry_price # None /\ TpSlTriggered(trades[i], price)
       IN  \E hs0 \in {[candles |-> ParseCandles(candles, price, size, timestamp),
                        trades |-> trades, ongoing |-> ongoing_position,
                        orders |-> orders, timers |-> timers, raised |-> FALSE,
                        entry_orders |-> 0, exit_orders |-> 0, signal_logs |-> 0,
                        tpsl_checks |-> 0, closed |-> 0, exit_status |-> "",
                        sizings |-> 0, unknown |-> 0, entry_status |-> "",
                        entry_avg |-> 0, exit_qty |-> 0]},
              free \in (IF exits /\ spot THEN FreeAmounts ELSE {0}) :
            \E base \in (IF exits /\ spot THEN BaseOutcomes(free) ELSE {None}),
              xo \in (IF exits THEN PlaceOutcomes(Len(orders)) ELSE {NoCall}),
              xep \in (IF exits /\ spot THEN RestResults ELSE {NoResult}) :
            \E hs1 \in {IF res = "same_candle" THEN TpSlLoop(hs0, 1, base, xo, xep) ELSE hs0} :
            \E sig \in (IF cfg.variant = "Technical" THEN TechnicalSignals
                        ELSE {BreakoutSignal(hs1.candles)}) :
             LET ev    == ~hs1.raised /\ Evaluates(cfg.variant, res, hs1.ongoing)
                 sized == ev /\ sig # 0 /\ ~RejectsShort(cfg.platform, sig)
             IN  \E balance \in (IF sized THEN QuoteOutcomes ELSE {None}) :
                  LET places == sized /\ balance \notin {Raised, None} IN
                  \E eo \in (IF places THEN PlaceOutcomes(Len(hs1.orders)) ELSE {NoCall}),
                     eep \in (IF places /\ spot THEN RestResults ELSE {NoResult}) :
                   \E hs2 \in {IF ev /\ sig # 0
                               THEN OpenPosition(hs1, sig, balance, eo, eep) ELSE hs1} :
                       /\ stalled => /\ Len(hs2.trades) > Len(hs1.trades)
                                      /\ PollsEntry(hs2.entry_status)
                       /\ candles' = hs2.candles
                       /\ trades' = IF stalled THEN hs1.trades ELSE hs2.trades
                       /\ opening' = IF stalled THEN <<Last(hs2.trades)>> ELSE <<>>
                       /\ ongoing_position' = hs2.ongoing
                       /\ orders' = hs2.orders
                       /\ timers' = hs2.timers
                       /\ tick' = [price |-> price, size |-> size, timestamp |-> timestamp,
                                   res |-> res, signal |-> sig, evaluated |-> ev,
                                   open_at_check |-> OpenTrades(hs1.trades) # {},
                                   entry_orders |-> hs2.entry_orders,
                                   exit_orders |-> hs2.exit_orders,
                                   signal_logs |-> hs2.signal_logs,
                                   new_trades |-> Len(hs2.trades) - Len(hs1.trades),
                                   raised |-> hs2.raised,
                                   eligible |-> Cardinality({i \in OpenTrades(trades) :
                                                   trades[i].entry_price # None}),
                                   tpsl_checks |-> hs2.tpsl_checks,
                                   closed |-> hs2.closed,
                                   exit_status |-> hs2.exit_status,
                                   sizings |-> hs2.sizings,
                                   unknown |-> hs2.unknown,
                                   entry_status |-> hs2.entry_status,
                                   entry_avg |-> hs2.entry_avg,
                                   exit_qty |-> hs2.exit_qty,
                                   free |-> free]
                       /\ run' = RunAfter(run, res, price, size)
    /\ nticks' = nticks + 1
    /\ UNCHANGED <<uiVars, cfg, pollpc, reqLog, wsVars, auxVars>>

\* the handler runs to its end
OnAggTrade(price, size, timestamp) == DispatchTick(price, size, timestamp, FALSE)

\* the handler is held up before line 188 ...
OnAggTradeStalled(price, size, timestamp) == DispatchTick(price, size, timestamp, TRUE)

\* ... and goes on: line 188, self.trades.append(new_trade)
OpenPositionAppend ==
    /\ opening # <<>>
    /\ trades' = Append(trades, opening[1])
    /\ opening' = <<>>
    /\ UNCHANGED <<uiVars, cfg, candles, ongoing_position, orders, timers, pollpc, tick, nticks,
                   run, reqLog, wsVars, auxVars>>

(***************************************************************************)
(* The exchange fills or cancels a resting order.                          *)
(***************************************************************************)
ExchFill(i) ==
    /\ orders[i].status = "new"
    /\ orders' = [orders EXCEPT ![i].status = "filled",
                                ![i].avg_price = Last(candles).close,
                                ![i].executed_qty = orders[i].qty]
    /\ UNCHANGED <<uiVars, cfg, candles, trades, ongoing_position, timers, pollpc, opening, tick,
                   nticks, run,
                   reqLog, wsVars, auxVars>>

ExchCancel(i) ==
    /\ orders[i].status = "new"
    /\ orders' = [orders EXCEPT ![i].status = "canceled"]
    /\ UNCHANGED <<uiVars, cfg, candles, trades, ongoing_position, timers, pollpc, opening, tick,
                   nticks, run,
                   reqLog, wsVars, auxVars>>

(***************************************************************************)
(* strategies.py lines 124-147: _check_order_status on its timer thread.   *)
(***************************************************************************)
\* index of the first trade whose entry_id is order_id, 0 when there is none
FindTrade(ts, order_id) ==
    IF \E i \in 1..Len(ts) : ts[i].entry_id = order_id
    THEN CHOOSE i \in 1..Len(ts) :
            /\ ts[i].entry_id = order_id
            /\ \A j \in 1..(i - 1) : ts[j].entry_id # order_id
    ELSE 0

\* whether a poll that got this answer starts another timer (line 146)
Reschedules(ret, status) == ret = NoResult \/ (ret = "json" /\ status # "filled")

\* the timer fires: the query, and on "filled" the write of entry_price (line 141)
PollQuery(order_id, ret) ==
    /\ order_id \in timers
    /\ pollpc = 0
    /\ LET st == orders[order_id].status
           i  == FindTrade(trades, order_id)
       IN  /\ timers' = IF Reschedules(ret, st) THEN timers ELSE timers \ {order_id}
           /\ IF ret = "json" /\ st = "filled" /\ i # 0
              THEN /\ trades' = [trades EXCEPT ![i].entry_price = orders[order_id].avg_price]
                   /\ pollpc' = order_id
              ELSE UNCHANGED <<trades, pollpc>>
    /\ UNCHANGED <<uiVars, cfg, candles, ongoing_position, orders, opening, tick, nticks, run,
                   reqLog, wsVars, auxVars>>

\* the same poll's write of quantity (line 142)
PollWriteQty ==
    /\ pollpc # 0
    /\ trades' = [trades EXCEPT ![FindTrade(trades, pollpc)].quantity =
                                    orders[pollpc].executed_qty]
    /\ pollpc' = 0
    /\ UNCHANGED <<uiVars, cfg, candles, ongoing_position, orders, timers, opening, tick, nticks,
                   run, reqLog, wsVars, auxVars>>

(***************************************************************************)
(* The strategy specification.                                             *)
(***************************************************************************)
NoTick == [price |-> 0, size |-> 0, timestamp |-> 0, res |-> "", signal |-> 0,
           evaluated |-> FALSE, open_at_check |-> FALSE, entry_orders |-> 0,
           exit_orders |-> 0, signal_logs |-> 0, new_trades |-> 0, raised |-> FALSE,
           eligible |-> 0, tpsl_checks |-> 0, closed |-> 0, exit_status |-> "",
           sizings |-> 0, unknown |-> 0, entry_status |-> "", entry_avg |-> 0, exit_qty |-> 0,
           free |-> 0]

InitFor(configs, histories) ==
    /\ cfg \in configs
    /\ candles \in histories
    /\ trades = <<>>
    /\ ongoing_position = FALSE
    /\ orders = <<>>
    /\ timers = {}
    /\ pollpc = 0
    /\ opening = <<>>
    /\ tick = NoTick
    /\ nticks = 0
    /\ run = [n |-> 0, vol0 |-> Last(candles).volume, sum |-> 0,
               hi |-> Last(candles).low, lo |-> Last(candles).high]
    /\ reqLog = <<>>
    /\ InitWs
    /\ InitUi
    /\ prices = [bid |-> None, ask |-> None]
    /\ calc = [op |-> "none"]

Init == InitFor(Configs, {History(2)})

Next ==
    \/ \E price \in Prices, timestamp \in NearTimes(Last(candles).timestamp) :
          OnAggTrade(price, 2, timestamp)
    \/ \E i \in 1..Len(orders) : ExchFill(i)
    \/ \E i \in 1..Len(orders) : ExchCancel(i)
    \/ \E order_id \in timers, ret \in RestResults : PollQuery(order_id, ret)
    \/ PollWriteQty

Spec == Init /\ [][Next]_vars

(***************************************************************************)
(* The aggregator specification: every kind of tick (late, in the bucket,  *)
(* the next bucket, a gap) on a breakout strategy whose volume threshold   *)
(* is never reached, so that no order is ever submitted.                   *)
(***************************************************************************)
QuietConfigs ==
    {[c EXCEPT !.min_volume = 100] :
        c \in {c \in Configs : c.variant = "Breakout" /\ c.platform = "binance_futures"}}

InitAgg == InitFor(QuietConfigs, {History(2)})

NextAgg ==
    \E price \in Prices, size \in Sizes, timestamp \in TickTimes(Last(candles).timestamp) :
        OnAggTrade(price, size, timestamp)

SpecAgg == InitAgg /\ [][NextAgg]_vars

(***************************************************************************)
(* The REST specification: _make_request called with each method and each  *)
(* thing the HTTP call can do.                                             *)
(***************************************************************************)
MaxRequests == 2

Methods == {"GET", "POST", "DELETE"}

\* binance.py lines 99-137 (bitmex.py 75-111): one call of the wrapper; it makes
\* one HTTP call and there is no loop around it
Request(method, outcome) ==
    /\ Len(reqLog) < MaxRequests
    /\ reqLog' = Append(reqLog, [method |-> method, outcome |-> outcome,
                                 result |-> MakeRequest(outcome),
                                 logged |-> RequestLogged(outcome),
                                 http_calls |-> 1])
    /\ UNCHANGED <<uiVars, stratVars, wsVars, auxVars>>

InitRest == InitFor(QuietConfigs, {History(2)})

NextRest == \E method \in Methods, outcome \in HttpOutcomes : Request(method, outcome)

SpecRest == InitRest /\ [][NextRest]_vars

(***************************************************************************)
(* binance.py lines 468-508: subscribe_channel, one step per access to the *)
(* state the UI thread and the streaming worker share.  Every caller       *)
(* passes a list of one contract; the method also takes the empty list.    *)
(***************************************************************************)
Threads == {"ui", "worker"}

Recorded(symbol, channel) ==
    \E i \in 1..Len(ws_subscriptions[channel]) : ws_subscriptions[channel][i] = symbol

SubscribeAlways(recorded, reconnection) == TRUE

\* line 492
SubscribeNeeded(recorded, reconnection) == ~recorded \/ reconnection

\* entry of the call; recorded0 and again remember what the caller could see
StartCall(contracts, channel, reconnection, again) ==
    [IdleCall EXCEPT !.pc = "begin", !.contracts = contracts, !.channel = channel,
                     !.reconnection = reconnection, !.again = again,
                     !.recorded0 = \A i \in 1..Len(contracts) : Recorded(contracts[i], channel)]

Running(t) == IF t = "ui" THEN uipc = "run" ELSE wpc = "on_open"

\* lines 484-489
SubBegin(t) ==
    /\ Running(t) /\ call[t].pc = "begin"
    /\ call' = [call EXCEPT ![t].pc = IF Len(call[t].contracts) = 0 THEN "send" ELSE "chk1",
                            ![t].has_param = (Len(call[t].contracts) = 0)]
    /\ UNCHANGED <<uiVars, stratVars, restVars, auxVars, reconnect, ws_connected, ws_subscriptions, ws_id, sock,
                   wpc, oit, uipc, conn, counts>>

\* line 492, and lines 497-498 when nothing was collected
SubCheck(t) ==
    /\ Running(t) /\ call[t].pc = "chk1"
    /\ \E needed \in {SubscribeNeeded(Recorded(call[t].contracts[1], call[t].channel),
                                      call[t].reconnection)} :
           call' = [call EXCEPT ![t].pc = IF needed THEN "chk2" ELSE "ret",
                                ![t].has_param = needed]
    /\ UNCHANGED <<uiVars, stratVars, restVars, auxVars, reconnect, ws_connected, ws_subscriptions, ws_id, sock,
                   wpc, oit, uipc, conn, counts>>

\* lines 493-494
SubCheckAppend(t) ==
    /\ Running(t) /\ call[t].pc = "chk2"
    /\ call' = [call EXCEPT ![t].pc = IF Recorded(call[t].contracts[1], call[t].channel)
                                      THEN "send" ELSE "app"]
    /\ UNCHANGED <<uiVars, stratVars, restVars, auxVars, reconnect, ws_connected, ws_subscriptions, ws_id, sock,
                   wpc, oit, uipc, conn, counts>>

\* line 495
SubAppend(t) ==
    /\ Running(t) /\ call[t].pc = "app"
    /\ ws_subscriptions' = [ws_subscriptions EXCEPT
           ![call[t].channel] = Append(@, call[t].contracts[1])]
    /\ call' = [call EXCEPT ![t].pc = "send", ![t].appended = TRUE]
    /\ conn' = IF t = "worker" THEN [conn EXCEPT !.appended = @ + 1] ELSE conn
    /\ UNCHANGED <<uiVars, stratVars, restVars, auxVars, reconnect, ws_connected, ws_id, sock, wpc, oit, uipc,
                   counts>>

\* lines 500-506: the message goes out on an open connection; on any other
\* ws.send raises and the error is logged
SubSend(t) ==
    /\ Running(t) /\ call[t].pc = "send"
    /\ call' = [call EXCEPT ![t].pc = "inc", ![t].sent = TRUE,
                            ![t].delivered = (sock = "open")]
    /\ conn' = IF t = "worker"
               THEN [conn EXCEPT !.sent = Append(@, <<call[t].contracts[1], call[t].channel>>)]
               ELSE conn
    /\ UNCHANGED <<uiVars, stratVars, restVars, auxVars, reconnect, ws_connected, ws_subscriptions, ws_id, sock,
                   wpc, oit, uipc, counts>>

\* line 508, self._ws_id += 1: the thread reads the counter ...
SubReadId(t) ==
    /\ Running(t) /\ call[t].pc = "inc"
    /\ call' = [call EXCEPT ![t].pc = "store", ![t].id_read = ws_id]
    /\ UNCHANGED <<uiVars, stratVars, restVars, auxVars, reconnect, ws_connected, ws_subscriptions, ws_id, sock,
                   wpc, oit, uipc, conn, counts>>

\* ... and stores what it read plus one
SubIncrement(t) ==
    /\ Running(t) /\ call[t].pc = "store"
    /\ ws_id' = call[t].id_read + 1
    /\ call' = [call EXCEPT ![t].pc = "ret", ![t].id_read = 0, ![t].consumed = TRUE]
    /\ UNCHANGED <<uiVars, stratVars, restVars, auxVars, reconnect, ws_connected, ws_subscriptions, sock, wpc,
                   oit, uipc, conn, counts>>

(***************************************************************************)
(* The UI thread: strategy_component.py lines 313-314 and                  *)
(* root_component.py line 147 call subscribe_channel; root_component.py    *)
(* lines 75-77 shut the client down.                                       *)
(***************************************************************************)
UiIdle == uipc = "run" /\ call.ui.pc \in {"idle", "ret"}

ContractLists == {<<>>} \cup {<<s>> : s \in Symbols}

UiSubscribe(contracts, channel) ==
    /\ UiIdle
    /\ counts.drops + counts.ui_calls < MaxEvents
    /\ call' = [call EXCEPT !.ui =
           StartCall(contracts, channel, FALSE,
                     call.ui.pc = "ret" /\ call.ui.contracts = contracts
                                        /\ call.ui.channel = channel)]
    /\ counts' = [counts EXCEPT !.ui_calls = @ + 1]
    /\ UNCHANGED <<uiVars, stratVars, restVars, auxVars, reconnect, ws_connected, ws_subscriptions, ws_id, sock,
                   wpc, oit, uipc, conn>>

\* root_component.py line 75
ShutdownFlag ==
    /\ UiIdle
    /\ reconnect' = FALSE
    /\ uipc' = "closing"
    /\ UNCHANGED <<uiVars, stratVars, restVars, auxVars, ws_connected, ws_subscriptions, ws_id, sock, wpc, oit,
                   call, conn, counts>>

\* root_component.py line 77: ws.close() closes the connection there is
ShutdownClose ==
    /\ uipc = "closing"
    /\ sock' = IF sock \in {"connecting", "open"} THEN "closed" ELSE sock
    /\ uipc' = "shut"
    /\ UNCHANGED <<uiVars, stratVars, restVars, auxVars, reconnect, ws_connected, ws_subscriptions, ws_id, wpc,
                   oit, call, conn, counts>>

(***************************************************************************)
(* The streaming worker: binance.py lines 366-408 (bitmex.py 205-217).     *)
(***************************************************************************)
AfterCheckInverted(flag) == IF flag THEN "done" ELSE "call"

\* lines 378-381
AfterCheck(flag) == IF flag THEN "call" ELSE "done"

\* line 378: the worker reads the flag
WorkerCheck ==
    /\ wpc = "check"
    /\ wpc' = AfterCheck(reconnect)
    /\ UNCHANGED <<uiVars, stratVars, restVars, auxVars, reconnect, ws_connected, ws_subscriptions, ws_id, sock,
                   oit, call, uipc, conn, counts>>

\* line 379: run_forever() starts a new connection attempt
WorkerRunForever ==
    /\ wpc = "call"
    /\ wpc' = "connecting"
    /\ sock' = "connecting"
    /\ UNCHANGED <<uiVars, stratVars, restVars, auxVars, reconnect, ws_connected, ws_subscriptions, ws_id, oit,
                   call, uipc, conn, counts>>

\* the connection opens and _on_open starts: lines 386-389
WorkerOpen ==
    /\ wpc = "connecting" /\ sock = "connecting"
    /\ sock' = "open"
    /\ wpc' = "on_open"
    /\ ws_connected' = TRUE
    /\ oit' = [stage |-> 1, i |-> 1]
    /\ conn' = [subs0 |-> ws_subscriptions, sent |-> <<>>, appended |-> 0]
    /\ counts' = [counts EXCEPT !.opens = @ + 1]
    /\ UNCHANGED <<uiVars, stratVars, restVars, auxVars, reconnect, ws_subscriptions, ws_id, call, uipc>>

\* the attempt fails, or the socket was closed under it: run_forever returns or
\* raises (lines 382-383) and the worker reaches line 384
WorkerConnectFails ==
    /\ wpc = "connecting"
    /\ sock = "closed" \/ counts.drops + counts.ui_calls < MaxEvents
    /\ sock' = "closed"
    /\ counts' = IF sock = "closed" THEN counts ELSE [counts EXCEPT !.drops = @ + 1]
    /\ wpc' = "sleep"
    /\ UNCHANGED <<uiVars, stratVars, restVars, auxVars, reconnect, ws_connected, ws_subscriptions, ws_id, oit,
                   call, uipc, conn>>

WorkerBetweenCalls == wpc = "on_open" /\ call.worker.pc \in {"idle", "ret"}

\* lines 393-395: the next symbol of the list being iterated, or the end of it
OnOpenLoop ==
    /\ WorkerBetweenCalls
    /\ oit.stage \in {1, 2}
    /\ \E channel \in {Channels[oit.stage]} :
           IF oit.i <= Len(ws_subscriptions[channel])
           THEN /\ call' = [call EXCEPT !.worker =
                       StartCall(<<ws_subscriptions[channel][oit.i]>>, channel, TRUE, FALSE)]
                /\ oit' = [oit EXCEPT !.i = @ + 1]
           ELSE /\ call' = [call EXCEPT !.worker = IdleCall]
                /\ oit' = [stage |-> oit.stage + 1, i |-> 1]
    /\ UNCHANGED <<uiVars, stratVars, restVars, auxVars, reconnect, ws_connected, ws_subscriptions, ws_id, sock,
                   wpc, uipc, conn, counts>>

\* lines 397-398
OnOpenDefault ==
    /\ WorkerBetweenCalls
    /\ oit.stage = 3
    /\ call' = [call EXCEPT !.worker =
           IF Recorded("BTCUSDT", "bookTicker") THEN IdleCall
           ELSE StartCall(<<"BTCUSDT">>, "bookTicker", FALSE, FALSE)]
    /\ oit' = [stage |-> 4, i |-> 1]
    /\ UNCHANGED <<uiVars, stratVars, restVars, auxVars, reconnect, ws_connected, ws_subscriptions, ws_id, sock,
                   wpc, uipc, conn, counts>>

\* _on_open returns and run_forever blocks reading the connection
OnOpenReturn ==
    /\ WorkerBetweenCalls
    /\ oit.stage = 4
    /\ wpc' = "read"
    /\ oit' = [stage |-> 0, i |-> 0]
    /\ call' = [call EXCEPT !.worker = IdleCall]
    /\ UNCHANGED <<uiVars, stratVars, restVars, auxVars, reconnect, ws_connected, ws_subscriptions, ws_id, sock,
                   uipc, conn, counts>>

\* the network drops the connection
Drop ==
    /\ sock = "open"
    /\ counts.drops + counts.ui_calls < MaxEvents
    /\ sock' = "closed"
    /\ counts' = [counts EXCEPT !.drops = @ + 1]
    /\ UNCHANGED <<uiVars, stratVars, restVars, auxVars, reconnect, ws_connected, ws_subscriptions, ws_id, wpc,
                   oit, call, uipc, conn>>

\* lines 400-408 and 379: _on_close runs and run_forever returns
WorkerClosed ==
    /\ wpc = "read" /\ sock = "closed"
    /\ ws_connected' = FALSE
    /\ wpc' = "sleep"
    /\ UNCHANGED <<uiVars, stratVars, restVars, auxVars, reconnect, ws_subscriptions, ws_id, sock, oit, call,
                   uipc, conn, counts>>

\* line 384
WorkerSleep ==
    /\ wpc = "sleep"
    /\ wpc' = "check"
    /\ UNCHANGED <<uiVars, stratVars, restVars, auxVars, reconnect, ws_connected, ws_subscriptions, ws_id, sock,
                   oit, call, uipc, conn, counts>>

WorkerNext ==
    \/ WorkerCheck
    \/ WorkerRunForever
    \/ WorkerOpen
    \/ WorkerConnectFails
    \/ OnOpenLoop
    \/ OnOpenDefault
    \/ OnOpenReturn
    \/ WorkerClosed
    \/ WorkerSleep
    \/ SubBegin("worker")
    \/ SubCheck("worker")
    \/ SubCheckAppend("worker")
    \/ SubAppend("worker")
    \/ SubSend("worker")
    \/ SubReadId("worker")
    \/ SubIncrement("worker")

UiNext ==
    \/ \E contracts \in ContractLists, channel \in {"bookTicker", "aggTrade"} :
           UiSubscribe(contracts, channel)
    \/ SubBegin("ui")
    \/ SubCheck("ui")
    \/ SubCheckAppend("ui")
    \/ SubAppend("ui")
    \/ SubSend("ui")
    \/ SubReadId("ui")
    \/ SubIncrement("ui")
    \/ ShutdownFlag
    \/ ShutdownClose

(***************************************************************************)
(* The streaming specification, and the worker's loop against the network  *)
(* and the shutdown alone, with a worker thread that keeps being           *)
(* scheduled (time.sleep returns, a runnable thread runs).                 *)
(***************************************************************************)
InitWsOnly == InitFor(QuietConfigs, {History(2)})

NextWs == WorkerNext \/ UiNext \/ Drop

SpecWs == InitWsOnly /\ [][NextWs]_vars

NextWsLoop == WorkerNext \/ ShutdownFlag \/ ShutdownClose \/ Drop

SpecWsFair == InitWsOnly /\ [][NextWsLoop]_vars /\ WF_vars(WorkerNext)

(***************************************************************************)
(* Order sizing and order requests on both connectors, as computations on  *)
(* exact numbers: amounts, sizes and prices are whole numbers of the       *)
(* smallest unit, lot_size and tick_size whole numbers of the same unit.   *)
(***************************************************************************)
\* bitmex.py lines 321-335: xbt_size / (multiplier / price) for an inverse
\* contract, xbt_size / (multiplier * price) otherwise, then int()
GetTradeSizeBitmex(balance, balance_pct, price, multiplier, inverse) ==
    IF balance = None THEN None
    ELSE IF inverse THEN (balance * balance_pct * price) \div (100 * multiplier)
    ELSE (balance * balance_pct) \div (100 * multiplier * price)

\* the size before any rounding: binance.py line 536, bitmex.py lines 321-331
RawSize(connector, balance, balance_pct, price, multiplier, inverse) ==
    IF connector = "binance" THEN Frac(balance * balance_pct, 100 * price)
    ELSE IF inverse THEN Frac(balance * balance_pct * price, 100 * multiplier)
    ELSE Frac(balance * balance_pct, 100 * multiplier * price)

\* bitmex.py line 164: round(quantity / lot_size) * lot_size
OrderQuantityBitmex(quantity, lot_size) == RoundDiv(quantity, lot_size) * lot_size

OrderQuantityUnrounded(connector, quantity, lot_size) == quantity

\* the quantity field of the order request: binance.py line 256, bitmex.py line 164
RequestQuantity(connector, quantity, lot_size) ==
    IF connector = "binance" THEN OrderQuantity(quantity, lot_size)
    ELSE OrderQuantityBitmex(quantity, lot_size)

\* models.py lines 59-69: the number of decimals of a tick size; prices and
\* tick sizes are in hundredths
tick_to_decimals(tick_size) ==
    IF tick_size % 100 = 0 THEN 0 ELSE IF tick_size % 10 = 0 THEN 1 ELSE 2

\* binance.py line 261: '%.*f' % (price_decimals, price), a price written with
\* that many decimals
FormatPrice(price, price_decimals) ==
    LET step == IF price_decimals = 0 THEN 100 ELSE IF price_decimals = 1 THEN 10 ELSE 1
    IN  RoundDiv(price, step) * step

\* the price field of the order request: binance.py lines 259-261, bitmex.py
\* lines 167-168
RequestPrice(connector, price, tick_size) ==
    LET rounded == RoundDiv(price, tick_size) * tick_size
    IN  IF connector = "binance" THEN FormatPrice(rounded, tick_to_decimals(tick_size))
        ELSE rounded

Connectors == {"binance", "bitmex"}
Balances   == {0, 3, 10, 16}
Percents   == {10, 50, 100}
LotSizes   == {1, 2, 5}
TickSizes  == {1, 5, 10, 50, 100}
Multipliers == {1, 2}
OrderQuantities == 0..5
OrderPrices == {7, 25, 26, 75, 150}

\* get_trade_size and then place_order, as _open_position calls them
\* (strategies.py lines 161-170)
SizeOrder(connector, balance, balance_pct, price, lot_size, multiplier, inverse) ==
    /\ connector = "binance" => (multiplier = 1 /\ ~inverse)
    /\ \E trade_size \in {IF connector = "binance"
                          THEN GetTradeSize(balance, balance_pct, price, lot_size)
                          ELSE GetTradeSizeBitmex(balance, balance_pct, price, multiplier,
                                                  inverse)} :
          calc' = [op |-> "size", connector |-> connector, lot_size |-> lot_size,
                   raw |-> RawSize(connector, balance, balance_pct, price, multiplier,
                                   inverse),
                   trade_size |-> trade_size,
                   quantity |-> RequestQuantity(connector, trade_size, lot_size)]
    /\ UNCHANGED <<uiVars, stratVars, restVars, wsVars, prices>>

\* place_order building its request: binance.py lines 253-261, bitmex.py lines
\* 160-168
BuildOrder(connector, quantity, price, lot_size, tick_size) ==
    /\ calc' = [op |-> "order", connector |-> connector, lot_size |-> lot_size,
                tick_size |-> tick_size, asked_quantity |-> quantity, asked_price |-> price,
                quantity |-> RequestQuantity(connector, quantity, lot_size),
                price |-> RequestPrice(connector, price, tick_size)]
    /\ UNCHANGED <<uiVars, stratVars, restVars, wsVars, prices>>

(***************************************************************************)
(* The two signals as computations: strategies.py lines 303-319, 344-356.  *)
(***************************************************************************)
CheckSignalBreakout ==
    /\ calc' = [op |-> "breakout", out |-> BreakoutSignal(candles)]
    /\ UNCHANGED <<uiVars, stratVars, restVars, wsVars, prices>>

CheckSignalTechnical(rsi, macd_line, macd_signal) ==
    /\ calc' = [op |-> "technical", rsi |-> rsi, macd_line |-> macd_line,
                macd_signal |-> macd_signal,
                out |-> TechnicalSignal(rsi, macd_line, macd_signal)]
    /\ UNCHANGED <<uiVars, stratVars, restVars, wsVars, prices>>

\* a closed candle with high h and low l, then the current candle at close c
\* with volume v
Histories ==
    {cs \in {<<Candle(0, l, h, l, h, 1), Candle(tf_equiv, c, c, c, c, v)>> :
                l \in Prices, h \in Prices, c \in Prices, v \in 0..MaxSize} :
        cs[1].low <= cs[1].high}

CalcConfigs ==
    {[c EXCEPT !.min_volume = m] : c \in QuietConfigs, m \in {0, 1}}

InitCalc == InitFor(QuietConfigs, {History(2)})

NextCalc ==
    \/ \E connector \in Connectors, balance \in Balances, balance_pct \in Percents,
          price \in Prices, lot_size \in LotSizes, multiplier \in Multipliers,
          inverse \in BOOLEAN :
          SizeOrder(connector, balance, balance_pct, price, lot_size, multiplier, inverse)
    \/ \E connector \in Connectors, quantity \in OrderQuantities, price \in OrderPrices,
          lot_size \in LotSizes, tick_size \in TickSizes :
          BuildOrder(connector, quantity, price, lot_size, tick_size)
    \/ \E rsi \in RsiValues, macd_line \in MacdValues, macd_signal \in MacdValues :
          CheckSignalTechnical(rsi, macd_line, macd_signal)

SpecCalc == InitCalc /\ [][NextCalc]_vars

\* the breakout signal on every pair of candles and both volume thresholds
InitBreakout == InitFor(CalcConfigs, Histories)

NextBreakout == CheckSignalBreakout

SpecBreakout == InitBreakout /\ [][NextBreakout]_vars

(***************************************************************************)
(* The top-of-book handlers: binance.py lines 435-457, bitmex.py lines     *)
(* 241-275.  A pnl is kept as the exact fraction the expression denotes,   *)
(* not reduced.                                                            *)
(***************************************************************************)
\* binance.py lines 452-455
BinancePnl(side, entry_price, bid, ask, quantity) ==
    IF side = "long" THEN Frac((bid - entry_price) * quantity, 1)
    ELSE Frac((entry_price - ask) * quantity, 1)

\* bitmex.py lines 269-273: (price - entry) * multiplier * quantity, mirrored
LinearPnl(side, entry_price, price, multiplier, quantity) ==
    IF side = "long" THEN Frac((price - entry_price) * multiplier * quantity, 1)
    ELSE Frac((entry_price - price) * multiplier * quantity, 1)

\* bitmex.py lines 264-268: (1 / entry - 1 / price) * multiplier * quantity for
\* a long, (1 / price - 1 / entry) * multiplier * quantity for a short
InversePnl(side, entry_price, price, multiplier, quantity) ==
    IF side = "long"
    THEN Frac((price - entry_price) * multiplier * quantity, entry_price * price)
    ELSE Frac((entry_price - price) * multiplier * quantity, entry_price * price)

\* the trades whose pnl a top-of-book update recomputes
Marked(ts) == {i \in OpenTrades(ts) : ts[i].entry_price # None}

\* binance.py lines 435-457: a bookTicker message carries both sides
OnBookTicker(bid, ask) ==
    /\ cfg.platform # "bitmex"
    /\ prices' = [bid |-> bid, ask |-> ask]
    /\ trades' = [i \in 1..Len(trades) |->
                     IF i \in Marked(trades)
                     THEN [trades[i] EXCEPT !.pnl = BinancePnl(trades[i].side,
                                                       trades[i].entry_price, bid, ask,
                                                       trades[i].quantity)]
                     ELSE trades[i]]
    /\ calc' = [op |-> "book", raised |-> FALSE]
    /\ UNCHANGED <<uiVars, cfg, candles, ongoing_position, orders, timers, pollpc, opening, tick,
                   nticks, run,
                   reqLog, wsVars>>

\* the side of the book a trade is valued at: bitmex.py lines 258-261
SidePrice(side, book) == IF side = "long" THEN book.bid ELSE book.ask

\* bitmex.py lines 241-275: an instrument message carries the bid, the ask,
\* both or neither (None); a Trade valued at a side that is still None makes
\* the arithmetic raise and ends the handler there
OnInstrument(bid, ask) ==
    /\ cfg.platform = "bitmex"
    /\ \E book \in {[bid |-> IF bid # None THEN bid ELSE prices.bid,
                     ask |-> IF ask # None THEN ask ELSE prices.ask]} :
         LET fails == {i \in Marked(trades) : SidePrice(trades[i].side, book) = None}
             stop  == IF fails = {} THEN Len(trades) + 1
                      ELSE CHOOSE i \in fails : \A j \in fails : i <= j
         IN  /\ prices' = book
             /\ trades' = [i \in 1..Len(trades) |->
                   IF i \in Marked(trades) /\ i < stop
                   THEN [trades[i] EXCEPT !.pnl =
                           IF cfg.inverse
                           THEN InversePnl(trades[i].side, trades[i].entry_price,
                                           SidePrice(trades[i].side, book), cfg.multiplier,
                                           trades[i].quantity)
                           ELSE LinearPnl(trades[i].side, trades[i].entry_price,
                                          SidePrice(trades[i].side, book), cfg.multiplier,
                                          trades[i].quantity)]
                   ELSE trades[i]]
             /\ calc' = [op |-> "instrument", raised |-> fails # {}]
    /\ UNCHANGED <<uiVars, cfg, candles, ongoing_position, orders, timers, pollpc, opening, tick,
                   nticks, run,
                   reqLog, wsVars>>

\* the contracts: a Binance one, and BitMEX linear and inverse ones with their
\* stored multiplier (models.py lines 107-113)
PnlConfig(platform, inverse, multiplier) ==
    [variant |-> "Breakout", platform |-> platform, take_profit |-> 50, stop_loss |-> 50,
     min_volume |-> 100, balance_pct |-> 50, lot_size |-> 2, inverse |-> inverse,
     multiplier |-> multiplier]

PnlConfigs ==
    {PnlConfig("binance_futures", FALSE, 1)} \cup
    {PnlConfig("bitmex", inverse, multiplier) : inverse \in BOOLEAN, multiplier \in {-2, 1, 3}}

\* a strategy holding one Trade: waiting for its fill, filled, or closed
PnlTrades ==
    {<<[Trade(side, entry_price, quantity, 1) EXCEPT !.status = status]>> :
        side \in {"long", "short"}, entry_price \in {None, 2}, quantity \in {0, 2},
        status \in {"open", "closed"}}

InitPnl ==
    /\ cfg \in PnlConfigs
    /\ candles = History(2)
    /\ trades \in {ts \in PnlTrades :
                      /\ ts[1].entry_price = None => (ts[1].quantity = 0 /\ ts[1].status = "open")
                      /\ ts[1].status = "closed" => ts[1].quantity = 2}
    /\ ongoing_position = (trades[1].status = "open")
    /\ orders = <<ExchOrder("entry", IF trades[1].side = "long" THEN "buy" ELSE "sell", 2,
                            IF trades[1].entry_price = None THEN "new" ELSE "filled", 2)>>
                \o (IF trades[1].status = "closed"
                    THEN <<ExchOrder("exit", IF trades[1].side = "long" THEN "SELL" ELSE "BUY",
                                     2, "filled", 2)>>
                    ELSE <<>>)
    /\ timers = IF trades[1].entry_price = None \/ trades[1].quantity = 0 THEN {1} ELSE {}
    /\ pollpc = IF trades[1].entry_price # None /\ trades[1].quantity = 0 THEN 1 ELSE 0
    /\ opening = <<>>
    /\ tick = NoTick
    /\ nticks = 0
    /\ run = [n |-> 0, vol0 |-> Last(candles).volume, sum |-> 0,
               hi |-> Last(candles).low, lo |-> Last(candles).high]
    /\ reqLog = <<>>
    /\ InitWs
    /\ InitUi
    /\ prices = [bid |-> None, ask |-> None]
    /\ calc = [op |-> "none"]

NextPnl ==
    \/ \E bid \in Prices, ask \in Prices : OnBookTicker(bid, ask)
    \/ \E bid \in Prices \cup {None}, ask \in Prices \cup {None} : OnInstrument(bid, ask)

SpecPnl == InitPnl /\ [][NextPnl]_vars

(***************************************************************************)
(* The message handlers: binance.py lines 420-466, bitmex.py lines         *)
(* 231-288.  A frame is text that is not JSON, a JSON number, a JSON       *)
(* array, or a JSON object holding some of the keys the handler reads.     *)
(***************************************************************************)
\* a field float() cannot parse
BadNumber == -3

Frame(shape, keys, e, b, a, p, T) ==
    [shape |-> shape, keys |-> keys, e |-> e, b |-> b, a |-> a, p |-> p, T |-> T]

\* binance.py lines 430-434: the event of an object; a spot book ticker has no
\* "e" and is recognised by its "u" and "A" keys
Event(msg) ==
    IF {"u", "A"} \subseteq msg.keys THEN "bookTicker"
    ELSE IF "e" \in msg.keys THEN msg.e
    ELSE "none"

Readable(msg, key, value) == key \in msg.keys /\ value # BadNumber

\* the frames the Binance handler processes to the end
BookTickerFrame(msg) ==
    /\ msg.shape = "object"
    /\ Event(msg) = "bookTicker"
    /\ "s" \in msg.keys
    /\ Readable(msg, "b", msg.b)
    /\ Readable(msg, "a", msg.a)

AggTradeFrame(msg) ==
    /\ msg.shape = "object"
    /\ Event(msg) = "aggTrade"
    /\ "s" \in msg.keys
    /\ Readable(msg, "p", msg.p)
    /\ {"q", "T"} \subseteq msg.keys

\* what the handlers can touch, for comparison before and after a frame
Snapshot(book, cs, ts, subs) ==
    [prices |-> book, candles |-> cs, trades |-> ts, ws_subscriptions |-> subs]

\* the record of a frame that was not processed to the end
Dropped(msg, raised, book) ==
    [op |-> "message", msg |-> msg, raised |-> raised,
     before |-> Snapshot(prices, candles, trades, ws_subscriptions),
     after |-> Snapshot(book, candles, trades, ws_subscriptions)]

\* binance.py lines 420-466.  json.loads raises on text that is not JSON, and
\* the membership test of line 430 raises on a number; an object without an
\* event, or with an event the handler does not know, falls through both ifs.
\* Reading a key that is absent, or float() of a field that is not a number,
\* raises where it stands: for a symbol already in the cache the bid of line
\* 442 has then been written when line 443 fails
OnMessage(msg) ==
    /\ cfg.platform # "bitmex"
    /\ IF BookTickerFrame(msg) THEN OnBookTicker(msg.b, msg.a)
       ELSE IF AggTradeFrame(msg) THEN OnAggTrade(msg.p, 2, msg.T)
       ELSE /\ calc' =
                 IF msg.shape \in {"text", "number"} THEN Dropped(msg, TRUE, prices)
                 ELSE IF msg.shape = "array" THEN Dropped(msg, FALSE, prices)
                 ELSE IF Event(msg) = "bookTicker"
                 THEN IF "s" \notin msg.keys \/ ~Readable(msg, "b", msg.b)
                      THEN Dropped(msg, TRUE, prices)
                      ELSE Dropped(msg, TRUE,
                                   IF prices.bid # None THEN [prices EXCEPT !.bid = msg.b]
                                   ELSE prices)
                 ELSE IF Event(msg) = "aggTrade" THEN Dropped(msg, TRUE, prices)
                 ELSE Dropped(msg, FALSE, prices)
            /\ prices' = calc'.after.prices
            /\ UNCHANGED <<uiVars, stratVars, restVars, wsVars>>

\* bitmex.py lines 231-288 on a frame whose data list holds one entry: the keys
\* are those of the frame ("table", "data") and of the entry
InstrumentFrame(msg) ==
    /\ msg.shape = "object"
    /\ {"table", "data", "symbol"} \subseteq msg.keys
    /\ msg.e = "instrument"

TradeFrame(msg) ==
    /\ msg.shape = "object"
    /\ {"table", "data", "symbol", "timestamp", "size"} \subseteq msg.keys
    /\ msg.e = "trade"
    /\ Readable(msg, "price", msg.p)

OnMessageBitmex(msg) ==
    /\ cfg.platform = "bitmex"
    /\ IF InstrumentFrame(msg)
       THEN OnInstrument(IF "bidPrice" \in msg.keys THEN msg.b ELSE None,
                         IF "askPrice" \in msg.keys THEN msg.a ELSE None)
       ELSE IF TradeFrame(msg) THEN OnAggTrade(msg.p, 2, msg.T)
       ELSE /\ calc' =
                 IF msg.shape \in {"text", "number"} THEN Dropped(msg, TRUE, prices)
                 ELSE IF msg.shape = "array" \/ "table" \notin msg.keys
                 THEN Dropped(msg, FALSE, prices)
                 ELSE IF msg.e \in {"instrument", "trade"} THEN Dropped(msg, TRUE, prices)
                 ELSE Dropped(msg, FALSE, prices)
            /\ prices' = calc'.after.prices
            /\ UNCHANGED <<uiVars, stratVars, restVars, wsVars>>

\* the frames of the model
BookKeys ==
    {{"e", "s", "b", "a"}, {"e", "s", "b"}, {"e", "s", "a"}, {"e", "b", "a"},
     {"s", "b", "a"}, {"u", "A", "s", "b", "a"}, {"u", "A", "s", "b"}, {"e"}, {}}

AggKeys ==
    {{"e", "s", "p", "q", "T"}, {"e", "p", "q", "T"}, {"e", "s", "q", "T"},
     {"e", "s", "p", "T"}, {"e", "s", "p", "q"}}

InstrumentKeys ==
    {{"table", "data", "symbol", "bidPrice", "askPrice"}, {"table", "data", "symbol", "bidPrice"},
     {"table", "data", "symbol", "askPrice"}, {"table", "data", "symbol"},
     {"table", "data", "bidPrice", "askPrice"}, {"table"}, {}}

TradeKeys ==
    {{"table", "data", "symbol", "timestamp", "price", "size"},
     {"table", "data", "timestamp", "price", "size"},
     {"table", "data", "symbol", "price", "size"},
     {"table", "data", "symbol", "timestamp", "size"},
     {"table", "data", "symbol", "timestamp", "price"}}

OtherFrames == {Frame(shape, {}, "", 0, 0, 0, 0) : shape \in {"text", "number", "array"}}

BinanceFrames(T) ==
    OtherFrames
    \cup {Frame("object", keys, "bookTicker", b, 3, 0, 0) : keys \in BookKeys, b \in {1, 2}}
    \cup {Frame("object", {"e", "s", "b", "a"}, "bookTicker", 1, BadNumber, 0, 0),
          Frame("object", {"e", "s", "b", "a"}, "bookTicker", BadNumber, 3, 0, 0),
          Frame("object", {"e", "s", "b", "a"}, "other", 1, 3, 0, 0)}
    \cup {Frame("object", keys, "aggTrade", 0, 0, p, ts) :
            keys \in AggKeys, p \in {1, BadNumber}, ts \in NearTimes(T)}

BitmexFrames(T) ==
    OtherFrames
    \cup {Frame("object", keys, "instrument", 1, 3, 0, 0) : keys \in InstrumentKeys}
    \cup {Frame("object", {"table", "data"}, "other", 0, 0, 0, 0)}
    \cup {Frame("object", keys, "trade", 0, 0, p, ts) :
            keys \in TradeKeys, p \in {1, BadNumber}, ts \in NearTimes(T)}

\* a frame that is neither a complete top-of-book update nor a complete trade
\* tick of its exchange
Malformed(platform, msg) ==
    IF platform = "bitmex" THEN ~InstrumentFrame(msg) /\ ~TradeFrame(msg)
    ELSE ~BookTickerFrame(msg) /\ ~AggTradeFrame(msg)

NextMsg ==
    \/ \E msg \in BinanceFrames(Last(candles).timestamp) : OnMessage(msg)
    \/ \E msg \in BitmexFrames(Last(candles).timestamp) : OnMessageBitmex(msg)

\* one strategy per exchange, holding an open Trade
InitMsg ==
    /\ InitPnl
    /\ cfg \in {PnlConfig("binance_futures", FALSE, 1), PnlConfig("bitmex", FALSE, 1)}
    /\ trades[1].status = "open"
    /\ trades[1].side = "long"

SpecMsg == InitMsg /\ [][NextMsg]_vars

(***************************************************************************)
(* strategy_component.py: the rows of the strategy editor and their ON/OFF *)
(* button; root_component.py lines 105-132 and the connectors' message     *)
(* handlers: the passes over a client's strategies table.  The user        *)
(* interface runs on one thread, each streaming worker on its own.         *)
(***************************************************************************)
StrategyTypes == <<"Technical", "Breakout">>
AllContracts  == <<"BTCUSDT_Binance", "XBTUSD_Bitmex">>
AllTimeframes == <<"1m", "5m">>

\* lines 282-284: the two halves of a contract entry
SymbolOf(contract)   == IF contract = "BTCUSDT_Binance" THEN "BTCUSDT" ELSE "XBTUSD"
ExchangeOf(contract) == IF contract = "BTCUSDT_Binance" THEN "Binance" ELSE "Bitmex"

Rows == 0..(body_index - 1)

\* strategies[b_index] = new_strategy on a table without that key
DictInsert(table, entry) == Append(table, entry)

\* del strategies[b_index]
DictDelete(table, b_index) == SelectSeq(table, LAMBDA e : e.b_index # b_index)

\* lines 118-169: _add_strategy_row; each option menu shows its first value and
\* the entry boxes and the additional parameters are empty
AddStrategyRow ==
    /\ body_index < MaxRows
    /\ body_widgets' =
          [b \in 0..body_index |->
              IF b = body_index
              THEN [strategy_type |-> StrategyTypes[1], contract |-> AllContracts[1],
                    timeframe |-> AllTimeframes[1], entries |-> FALSE, parameters |-> {},
                    activation |-> "OFF"]
              ELSE body_widgets[b]]
    /\ body_index' = body_index + 1
    /\ UNCHANGED <<stratVars, restVars, wsVars, auxVars, strategies, it, passlog>>

\* the user picks from the option menus of a row and fills or clears its entry
\* boxes; the widgets of a row that is ON are disabled (lines 318-322)
EditRow(b_index, strategy_type, contract, timeframe, entries) ==
    /\ b_index \in Rows
    /\ body_widgets[b_index].activation = "OFF"
    /\ body_widgets' = [body_widgets EXCEPT ![b_index].strategy_type = strategy_type,
                                            ![b_index].contract = contract,
                                            ![b_index].timeframe = timeframe,
                                            ![b_index].entries = entries]
    /\ UNCHANGED <<stratVars, restVars, wsVars, auxVars, body_index, strategies, it, passlog>>

\* lines 241-259: _validate_parameters records the popup's boxes for the
\* strategy type selected; complete is whether none was left empty
ValidateParameters(b_index, complete) ==
    /\ b_index \in Rows
    /\ body_widgets[b_index].activation = "OFF"
    /\ body_widgets' =
          [body_widgets EXCEPT ![b_index].parameters =
              IF complete THEN @ \cup {body_widgets[b_index].strategy_type}
              ELSE @ \ {body_widgets[b_index].strategy_type}]
    /\ UNCHANGED <<stratVars, restVars, wsVars, auxVars, body_index, strategies, it, passlog>>

\* lines 261-337: _switch_strategy.  history is the number of candles
\* get_historical_candles returns.  The subscribe_channel calls of lines
\* 313-314 are the UiSubscribe steps of the streaming specification
SwitchStrategy(b_index, history) ==
    /\ b_index \in Rows
    /\ LET row == body_widgets[b_index]
           exchange == ExchangeOf(row.contract)
       IN  IF ~row.entries \/ row.strategy_type \notin row.parameters
           THEN UNCHANGED <<body_widgets, strategies>>
           ELSE IF row.activation = "OFF"
           THEN IF history = 0 THEN UNCHANGED <<body_widgets, strategies>>
                ELSE /\ strategies' =
                          [strategies EXCEPT ![exchange] =
                              DictInsert(@, [b_index |-> b_index,
                                             symbol |-> SymbolOf(row.contract),
                                             tf |-> row.timeframe,
                                             variant |-> row.strategy_type])]
                     /\ body_widgets' = [body_widgets EXCEPT ![b_index].activation = "ON"]
           ELSE /\ strategies' = [strategies EXCEPT ![exchange] = DictDelete(@, b_index)]
                /\ body_widgets' = [body_widgets EXCEPT ![b_index].activation = "OFF"]
    /\ UNCHANGED <<stratVars, restVars, wsVars, auxVars, body_index, it, passlog>>

\* root_component.py lines 105-132: the refresh pass over both tables, inside
\* try/except RuntimeError; it runs on the thread that changes the tables
UpdateUi ==
    /\ passlog' = [site |-> "ui", outcome |-> "done"]
    /\ UNCHANGED <<stratVars, restVars, wsVars, auxVars, body_index, body_widgets, strategies, it>>

\* a worker's for loop over strategies.items() begins: binance.py line 448
\* (bitmex.py 253) for the PnL pass, line 463 (285) for the trade-tick dispatch
PassBegin(exchange, site) ==
    /\ it.site = "idle"
    /\ it' = [site |-> site, exchange |-> exchange,
              size0 |-> Len(strategies[exchange]), pos |-> 0]
    /\ UNCHANGED <<stratVars, restVars, wsVars, auxVars, body_index, body_widgets, strategies,
                   passlog>>

\* whether the site's loop is inside try/except RuntimeError: binance.py lines
\* 447-457, bitmex.py lines 252-275
Catches(site) == site = "pnl"

\* the iterator's next(): RuntimeError when the table's size is not the one the
\* loop began with, else the entry after the ones it has returned, else the end
PassNext ==
    /\ it.site # "idle"
    /\ LET table == strategies[it.exchange]
       IN  IF Len(table) # it.size0
           THEN /\ passlog' = [site |-> it.site,
                               outcome |-> IF Catches(it.site) THEN "caught" ELSE "raised"]
                /\ it' = IdlePass
           ELSE IF it.pos >= Len(table)
           THEN /\ passlog' = [site |-> it.site, outcome |-> "done"]
                /\ it' = IdlePass
           ELSE /\ it' = [it EXCEPT !.pos = @ + 1]
                /\ UNCHANGED passlog
    /\ UNCHANGED <<stratVars, restVars, wsVars, auxVars, body_index, body_widgets, strategies>>

\* the editor alone: every selection a row can show
NextEditor ==
    \/ AddStrategyRow
    \/ \E b_index \in Rows, strategy_type \in {"Technical", "Breakout"},
          contract \in {"BTCUSDT_Binance", "XBTUSD_Bitmex"}, timeframe \in {"1m", "5m"},
          entries \in BOOLEAN :
          EditRow(b_index, strategy_type, contract, timeframe, entries)
    \/ \E b_index \in Rows, complete \in BOOLEAN : ValidateParameters(b_index, complete)
    \/ \E b_index \in Rows, history \in {0, 1} : SwitchStrategy(b_index, history)
    \/ UpdateUi

SpecEditor == InitFor(QuietConfigs, {History(2)}) /\ [][NextEditor]_vars

\* the editor and a worker's passes: rows of trend strategies on one timeframe,
\* on either exchange
NextTable ==
    \/ AddStrategyRow
    \/ \E b_index \in Rows, contract \in {"BTCUSDT_Binance", "XBTUSD_Bitmex"} :
          EditRow(b_index, "Technical", contract, "1m", TRUE)
    \/ \E b_index \in Rows : ValidateParameters(b_index, TRUE)
    \/ \E b_index \in Rows, history \in {0, 1} : SwitchStrategy(b_index, history)
    \/ UpdateUi
    \/ \E exchange \in Exchanges, site \in {"pnl", "dispatch"} : PassBegin(exchange, site)
    \/ PassNext

SpecTable == InitFor(QuietConfigs, {History(2)}) /\ [][NextTable]_vars

(***************************************************************************)
(* The strategy specification with its timers running: a pending           *)
(* threading.Timer fires, and a poll that wrote entry_price goes on to     *)
(* write quantity.                                                         *)
(***************************************************************************)
SpecTimersFair ==
    /\ Init
    /\ [][Next]_vars
    /\ WF_vars(\E order_id \in timers, ret \in RestResults : PollQuery(order_id, ret))
    /\ WF_vars(PollWriteQty)

(***************************************************************************)
(* The strategy specification with the entry handler in two steps: the     *)
(* Timer of line 182 is running while the handler has not yet reached the  *)
(* append of line 188.                                                     *)
(***************************************************************************)
NextEntry ==
    \/ Next
    \/ \E price \in Prices, timestamp \in NearTimes(Last(candles).timestamp) :
          OnAggTradeStalled(price, 2, timestamp)
    \/ OpenPositionAppend

SpecEntry == Init /\ [][NextEntry]_vars

(***************************************************************************)
(* The strategy specification started in a position: the strategy holds    *)
(* one open Trade whose entry order was filled at the last close.          *)
(***************************************************************************)
InitExit ==
    /\ cfg \in Configs
    /\ candles = History(2)
    /\ \E side \in (IF Futures(cfg.platform) THEN {"long", "short"} ELSE {"long"}) :
          /\ trades = <<Trade(side, Last(candles).close, 2, 1)>>
          /\ orders = <<ExchOrder("entry", IF side = "long" THEN "buy" ELSE "sell", 2, "filled",
                                  Last(candles).close)>>
    /\ ongoing_position = TRUE
    /\ timers = {}
    /\ pollpc = 0
    /\ opening = <<>>
    /\ tick = NoTick
    /\ nticks = 0
    /\ run = [n |-> 0, vol0 |-> Last(candles).volume, sum |-> 0,
               hi |-> Last(candles).low, lo |-> Last(candles).high]
    /\ reqLog = <<>>
    /\ InitWs
    /\ InitUi
    /\ prices = [bid |-> None, ask |-> None]
    /\ calc = [op |-> "none"]

\* no entry order of this strategy is waiting for its fill, so no Timer runs
NextExit ==
    \/ \E price \in Prices, timestamp \in NearTimes(Last(candles).timestamp) :
          OnAggTrade(price, 2, timestamp)
    \/ \E i \in 1..Len(orders) : ExchFill(i)
    \/ \E i \in 1..Len(orders) : ExchCancel(i)

SpecExit == InitExit /\ [][NextExit]_vars

(***************************************************************************)
(* Properties.                                                             *)
(***************************************************************************)
HistLen == Len(History(2))

\* the step is the dispatch of a trade tick
TickStep == nticks' = nticks + 1

\* C1: a strategy never has more than one Trade with status open, and a tick
\* whose signal is non-zero while a Trade is open submits no entry order and adds
\* no Trade.
C1_AtMostOneOpenTrade ==
    /\ Cardinality(OpenTrades(trades)) <= 1
    /\ (tick.open_at_check /\ tick.signal # 0) =>
            (tick.entry_orders = 0 /\ tick.new_trades = 0 /\ ~tick.evaluated)

C1_Witness ==
    /\ tick.open_at_check
    /\ tick.signal # 0
    /\ Cardinality(OpenTrades(trades)) = 1

\* C2: ticks below T + W are all classified same_candle and leave the series
\* length alone; after them the last candle closes at the last tick's price, its
\* high and low bound every folded tick price, and its volume has grown by the
\* sum of the folded tick sizes.
C2_SameCandleFold ==
    /\ [](/\ Last(candles).volume = run.vol0 + run.sum
          /\ run.n > 0 => /\ Last(candles).close = tick.price
                          /\ Last(candles).high >= run.hi
                          /\ Last(candles).low <= run.lo)
    /\ [][(TickStep /\ tick'.timestamp < Last(candles).timestamp + tf_equiv) =>
            /\ tick'.res = "same_candle"
            /\ Len(candles') = Len(candles)
            /\ run'.n = run.n + 1
            /\ run'.sum = run.sum + tick'.size
            /\ run'.hi >= tick'.price /\ run'.hi >= run.hi
            /\ run'.lo <= tick'.price /\ run'.lo <= run.lo
            /\ run'.vol0 = run.vol0]_vars

C2_Witness ==
    /\ tick.res = "same_candle"
    /\ run.n >= 2
    /\ run.hi > run.lo
    /\ run.vol0 > 0
    /\ tick.price < run.hi

C4_NextBucket ==
    [][LET T == Last(candles).timestamp
           n == Len(candles)
           p == tick'.price
       IN  (/\ TickStep
            /\ tick'.timestamp >= T + tf_equiv
            /\ tick'.timestamp < T + 2 * tf_equiv) =>
               /\ tick'.res = "new_candle"
               /\ Len(candles') = n + 1
               /\ candles'[n + 1] = Candle(T + tf_equiv, p, p, p, p, tick'.size)
               /\ \A i \in 1..n : candles'[i] = candles[i]]_vars

C4_Witness ==
    /\ tick.res = "new_candle"
    /\ Len(candles) = HistLen + 1
    /\ tick.timestamp = Last(candles).timestamp + tf_equiv - 1
    /\ tick.price # candles[Len(candles) - 1].close

\* C5: every candle parse_trades appended starts exactly one bucket width after
\* its predecessor in the series, whatever ticks came (in order, late, after a
\* gap): no bucket is skipped and none appears twice.
C5_ConstantStep ==
    \A i \in (HistLen + 1)..Len(candles) :
        candles[i].timestamp = candles[i - 1].timestamp + tf_equiv

C5_Witness ==
    /\ Len(candles) >= HistLen + 3
    /\ \E i \in (HistLen + 1)..Len(candles) : candles[i].volume = 0
    /\ nticks = MaxTicks

\* C6: whatever the single HTTP call does (it raises, answers 200, answers
\* another 2xx status, or answers an error status with a body that is JSON or
\* not), the wrapper raises nothing to its caller: it returns the decoded JSON
\* or, after logging, the no-result value, having made one HTTP call.
C6_NeverRaises ==
    \A i \in 1..Len(reqLog) :
        /\ reqLog[i].result \in {"json", NoResult}
        /\ reqLog[i].result = NoResult => reqLog[i].logged
        /\ reqLog[i].http_calls = 1

\* C7: while reconnect is true the worker never leaves its loop, and whenever
\* the connection is closed the worker goes on to a new connection attempt
\* (unless reconnect has been cleared meanwhile).
C7_WorkerKeepsReconnecting ==
    /\ [][(wpc # "done" /\ wpc' = "done") => ~reconnect]_vars
    /\ (sock = "closed") ~> (sock = "connecting" \/ ~reconnect)

C7_Witness == counts.drops > 0 /\ counts.opens > 0 /\ sock = "connecting" /\ reconnect

\* C8: once the shutdown has cleared reconnect and closed the socket, the
\* worker opens no new connection.
C8_NoConnectionAfterShutdown ==
    [][uipc = "shut" => ~(wpc = "call" /\ wpc' = "connecting")]_vars

Count(seq, x) == Cardinality({i \in 1..Len(seq) : seq[i] = x})

NoDup(seq) == \A i, j \in 1..Len(seq) : seq[i] = seq[j] => i = j

\* C9: when _on_open has run, it has sent exactly one subscribe request for
\* each (symbol, channel) pair that was recorded when the connection opened,
\* no channel's list holds a symbol twice, and on a reconnection the handler
\* has added nothing to the lists.
C9_ResubscribesEachPairOnce ==
    wpc = "read" =>
        /\ \A c \in {"bookTicker", "aggTrade"} :
               /\ NoDup(ws_subscriptions[c])
               /\ \A i \in 1..Len(conn.subs0[c]) :
                      Count(conn.sent, <<conn.subs0[c][i], c>>) = 1
        /\ counts.opens > 1 => conn.appended = 0

NoEffect(f) == ~f.sent /\ ~f.appended /\ ~f.consumed

C11_TpSlOnEveryTick ==
    (nticks > 0 /\ tick.eligible > 0) => tick.tpsl_checks = tick.eligible

\* C12: a Trade is closed (and ongoing_position cleared) by a tick only when
\* the exit order it placed came back with status filled.
C12_ClosedOnlyOnFilledExit ==
    tick.closed > 0 => tick.exit_status = "filled"

\* C14: on a spot account a short signal ends _open_position at once: no
\* balance is fetched, no order is submitted, no Trade is created, no signal is
\* logged and ongoing_position stays false.
C14_SpotShortRejected ==
    (cfg.platform = "binance_spot" /\ tick.evaluated /\ tick.signal = -1) =>
        /\ tick.sizings = 0
        /\ tick.entry_orders = 0
        /\ tick.new_trades = 0
        /\ tick.signal_logs = 0
        /\ ~ongoing_position

C14_Witness ==
    cfg.platform = "binance_spot" /\ tick.evaluated /\ tick.signal = -1 /\ nticks > 0

\* C16: the poll of an order id stops being scheduled only by a poll that
\* observed status filled, and that poll writes the status's average price
\* into the Trade whose entry_id is the order id.
C16_PollUntilFilled ==
    [][\A id \in timers :
          id \notin timers' =>
              /\ orders[id].status = "filled"
              /\ FindTrade(trades', id) # 0
              /\ trades'[FindTrade(trades', id)].entry_price = orders[id].avg_price]_vars

\* C13: the quantity of the entry order is the raw size (usable balance x
\* balance_pct / 100) / price rounded down to a multiple of lot_size: it is a
\* multiple of lot_size, not above the raw size and less than one lot below it.
C13_SizeRoundsDown ==
    calc.op = "size" =>
        /\ calc.quantity % calc.lot_size = 0
        /\ calc.quantity * calc.raw.den <= calc.raw.num
        /\ calc.raw.num < (calc.quantity + calc.lot_size) * calc.raw.den

\* C15: in every order request, on both connectors, the quantity is a whole
\* multiple of lot_size and the price a whole multiple of tick_size.
C15_RequestMultiples ==
    calc.op = "order" =>
        /\ calc.quantity % calc.lot_size = 0
        /\ calc.price % calc.tick_size = 0

C15_Witness ==
    /\ calc.op = "order" /\ calc.connector = "binance"
    /\ calc.asked_quantity % calc.lot_size # 0 /\ calc.quantity > 0
    /\ calc.asked_price % calc.tick_size # 0 /\ calc.tick_size = 50

\* C19: the breakout signal is long exactly when the last close is above the
\* previous high and the last volume above the minimum, short exactly when the
\* last close is below the previous low and the last volume above the minimum,
\* none otherwise; the two conditions never hold together.
C19_BreakoutSignal ==
    calc.op = "breakout" =>
        LET last == candles[Len(candles)]
            prev == candles[Len(candles) - 1]
            long == last.close > prev.high /\ last.volume > cfg.min_volume
            short == last.close < prev.low /\ last.volume > cfg.min_volume
        IN  /\ calc.out = 1 <=> long
            /\ calc.out = -1 <=> short
            /\ calc.out = 0 <=> (~long /\ ~short)
            /\ ~(long /\ short)

C19_Witness ==
    /\ calc.op = "breakout" /\ calc.out = -1
    /\ candles[Len(candles) - 1].low < candles[Len(candles) - 1].high

\* C20: the trend signal is long exactly when the oscillator is below 30 and
\* the fast line above the signal line, short exactly when the oscillator is
\* above 70 and the fast line below the signal line, and none otherwise, an
\* oscillator of exactly 30 or 70, equal lines and an undefined oscillator
\* included.
C20_TechnicalSignal ==
    calc.op = "technical" =>
        LET defined == calc.rsi # NaN
            long == defined /\ calc.rsi < 30 /\ calc.macd_line > calc.macd_signal
            short == defined /\ calc.rsi > 70 /\ calc.macd_line < calc.macd_signal
        IN  /\ calc.out = 1 <=> long
            /\ calc.out = -1 <=> short
            /\ calc.out = 0 <=> (~long /\ ~short)

C20_Witness ==
    /\ calc.op = "technical" /\ calc.rsi = 30 /\ calc.macd_line > calc.macd_signal
    /\ calc.out = 0

\* C17: after a top-of-book update, on either connector, every open Trade of
\* a linear contract with a confirmed entry price has pnl = (bid - entry) x
\* quantity if long and (entry - ask) x quantity if short, for the bid and ask
\* in the price cache.
C17_LinearPnl ==
    (calc.op \in {"book", "instrument"} /\ ~cfg.inverse) =>
        \A i \in Marked(trades) :
            trades[i].pnl =
                IF trades[i].side = "long"
                THEN Frac((prices.bid - trades[i].entry_price) * trades[i].quantity, 1)
                ELSE Frac((trades[i].entry_price - prices.ask) * trades[i].quantity, 1)

\* C18: after a price update on an inverse contract, an open long Trade has
\* pnl = (1/entry - 1/price) x multiplier x quantity and an open short Trade
\* pnl = (1/price - 1/entry) x multiplier x quantity, and the two values for
\* the same entry, price and quantity are negatives of each other.
C18_InversePnl ==
    (calc.op = "instrument" /\ cfg.inverse) =>
        \A i \in Marked(trades) :
            LET e == trades[i].entry_price
                p == SidePrice(trades[i].side, prices)
                k == cfg.multiplier * trades[i].quantity
            IN  /\ trades[i].pnl = IF trades[i].side = "long"
                                   THEN Frac((p - e) * k, e * p)
                                   ELSE Frac((e - p) * k, e * p)
                /\ InversePnl("short", e, p, cfg.multiplier, trades[i].quantity).num =
                       -InversePnl("long", e, p, cfg.multiplier, trades[i].quantity).num
                /\ InversePnl("short", e, p, cfg.multiplier, trades[i].quantity).den =
                       InversePnl("long", e, p, cfg.multiplier, trades[i].quantity).den

\* C21: a frame that is not a complete top-of-book update or trade tick is
\* dropped without effect: the handler raises nothing and the price cache, the
\* candles, the trades and the subscriptions are what they were before it
C21_MalformedDropped ==
    (calc.op = "message" /\ Malformed(cfg.platform, calc.msg))
        => (~calc.raised /\ calc.after = calc.before)

\* C22: no pass over a strategies table ends with the mutation-during-iteration
\* error leaving it: at every site the error is caught and only the pass is
\* abandoned
C22_EveryPassCatches == passlog.outcome # "raised"

\* C24: a client's strategies table never holds two strategies with the same
\* contract, timeframe and variant
C24_OnePerContractTimeframeVariant ==
    \A exchange \in Exchanges :
        \A i, j \in 1..Len(strategies[exchange]) :
            (/\ strategies[exchange][i].symbol = strategies[exchange][j].symbol
             /\ strategies[exchange][i].tf = strategies[exchange][j].tf
             /\ strategies[exchange][i].variant = strategies[exchange][j].variant)
                => i = j

\* C23: when the submission of an entry order on a tick has returned the
\* empty result while the exchange took the order, the next tick does not
\* submit another entry order
C23_NoEntryAfterUnknownOutcome ==
    [][(TickStep /\ tick.unknown > 0) => tick'.entry_orders = 0]_vars

\* C25: a tick only ever changes the last candle of the series: the candles
\* before the last keep every field, whatever the tick's timestamp (a late tick
\* included), the series never shrinks, and the candle that was last is left
\* alone by the tick that appends its successor
C25_OnlyLastCandleChanges ==
    [][TickStep =>
        /\ Len(candles') >= Len(candles)
        /\ \A i \in 1..(Len(candles) - 1) : candles'[i] = candles[i]
        /\ Len(candles') > Len(candles) => candles'[Len(candles)] = Last(candles)]_vars

C25_Witness ==
    /\ tick.res = "same_candle"
    /\ tick.timestamp < Last(candles).timestamp
    /\ Len(candles) > HistLen
    /\ Last(candles).close = tick.price
    /\ candles[Len(candles) - 1].close # tick.price

\* the exit rule of a Trade with a confirmed entry price at tick price p: a long
\* exits at or above entry x (1 + tp/100) and at or below entry x (1 - sl/100),
\* a short at or below entry x (1 - tp/100) and at or above entry x (1 + sl/100)
Exits(trade, p) ==
    IF trade.side = "long"
    THEN \/ p * 100 >= trade.entry_price * (100 + cfg.take_profit)
         \/ p * 100 <= trade.entry_price * (100 - cfg.stop_loss)
    ELSE \/ p * 100 <= trade.entry_price * (100 - cfg.take_profit)
         \/ p * 100 >= trade.entry_price * (100 + cfg.stop_loss)

\* C26: on a tick at price p, for the open Trade with a confirmed entry price:
\* when the exit rule holds exactly one order is submitted, a market order on
\* the opposite side (SELL for a long, BUY for a short) for the Trade's
\* quantity; when it does not hold no order is submitted
C26_ExitRule ==
    [][TickStep =>
        \A i \in Marked(trades) :
            IF Exits(trades[i], tick'.price)
            THEN /\ tick'.exit_orders = 1
                 /\ Len(orders') > Len(orders) =>
                       /\ Len(orders') = Len(orders) + 1
                       /\ Last(orders').kind = "exit"
                       /\ Last(orders').side =
                             (IF trades[i].side = "long" THEN "SELL" ELSE "BUY")
                       /\ Last(orders').qty = trades'[i].quantity
            ELSE tick'.exit_orders = 0 /\ tick'.closed = 0]_vars

\* C27: when place_order returns an order status to _open_position, exactly one
\* Trade is appended and ongoing_position becomes true; if the status is filled
\* the Trade's entry price is the order's average price and no poll is
\* scheduled, otherwise the entry price is null and one poll is scheduled for
\* the order's id, for which none was pending
C27_EntryBookkeeping ==
    [][(TickStep /\ tick'.entry_status # "") =>
        /\ Len(trades') = Len(trades) + 1
        /\ \A i \in 1..Len(trades) : trades'[i].entry_id = trades[i].entry_id
        /\ ongoing_position'
        /\ Last(trades').status = "open"
        /\ Last(trades').entry_id = Len(orders')
        /\ IF tick'.entry_status = "filled"
           THEN /\ Last(trades').entry_price = tick'.entry_avg
                /\ timers' = timers
           ELSE /\ Last(trades').entry_price = None
                /\ Last(trades').entry_id \notin timers
                /\ timers' = timers \cup {Last(trades').entry_id}]_vars

C27_Witness ==
    /\ tick.entry_status = "new"
    /\ tick.new_trades = 1
    /\ Last(trades).entry_price = None
    /\ Last(trades).entry_id \in timers

\* C28: the poll chain of an order that is not filled never ends: every Trade
\* still waiting for its entry price has a poll pending for its order, and a
\* pending poll stays pending for as long as the order is not filled
C28_PollChainNeverEnds ==
    [][/\ \A i \in 1..Len(trades') :
            trades'[i].entry_price = None => trades'[i].entry_id \in timers'
       /\ \A id \in timers : orders'[id].status # "filled" => id \in timers']_vars

\* C29: on a tick the signal is evaluated exactly when the strategy is flat
\* at the time of check_trade and, for the trend variant, the tick was
\* classified new_candle; the breakout variant evaluates on same_candle ticks
\* too, and neither evaluates while ongoing_position is true
C29_WhenSignalsAreEvaluated ==
    [][TickStep =>
        LET flat == ~ongoing_position \/ tick'.closed > 0
        IN  tick'.evaluated <=>
               (flat /\ (cfg.variant = "Technical" => tick'.res = "new_candle"))]_vars

C29_Witness ==
    /\ cfg.variant = "Breakout"
    /\ tick.res = "same_candle"
    /\ tick.evaluated
    /\ nticks = MaxTicks
    /\ Len(trades) > 0

\* C30: on a spot account the quantity of a closing SELL order is the smaller
\* of the base asset's free amount on the account and the Trade's quantity,
\* whatever get_balances returned, and so never more than the free amount
C30_ExitWithinBalance ==
    [][(TickStep /\ ~Futures(cfg.platform) /\ tick'.exit_orders > 0) =>
        \A i \in Marked(trades) :
            (trades[i].side = "long" /\ Exits(trades[i], tick'.price)) =>
                /\ tick'.exit_qty = Min(tick'.free, trades[i].quantity)
                /\ tick'.exit_qty <= tick'.free]_vars

(***************************************************************************)
(* The flag and the trade list (strategies.py lines 175-188 and 237-238).  *)
(***************************************************************************)
\* a trade of the list that this step marks closed
ClosedInStep ==
    \E i \in 1..Len(trades) : trades[i].status = "open" /\ trades'[i].status = "closed"

\* C31: after every step ongoing_position is true exactly when the strategy has
\* a Trade with status open, and the flag after the step is the flag before it,
\* cleared when the step marks the open Trade closed and set when the step
\* appends a Trade
C31_FlagIffOpenTrade ==
    [][/\ ongoing_position' <=> (OpenTrades(trades') # {})
       /\ ongoing_position' <=>
            \/ Len(trades') > Len(trades)
            \/ ongoing_position /\ ~ClosedInStep]_vars

\* a Trade was appended with the flag set, and a later tick closed it and
\* cleared the flag
C31_Witness ==
    /\ tick.closed = 1
    /\ ~ongoing_position
    /\ Len(trades) = 1
    /\ trades[1].status = "closed"

(***************************************************************************)
(* An entry order that the exchange cancels (strategies.py lines 124-147,  *)
(* 172-188 and 76-80).                                                     *)
(***************************************************************************)
\* the strategy is held by a Trade without entry price whose entry order ended
\* canceled
HeldByDeadOrder ==
    /\ ongoing_position
    /\ \E i \in OpenTrades(trades) :
          /\ trades[i].entry_price = None
          /\ orders[trades[i].entry_id].status = "canceled"

\* C32: a Trade whose entry order ended in a terminal non-filled status does
\* not hold the strategy for ever: again and again the strategy is not held by
\* a Trade with null entry price and a canceled entry order
C32_DeadOrderReleases == []<>~HeldByDeadOrder

(***************************************************************************)
(* The first poll and the append (strategies.py lines 179-188, 132-147).   *)
(***************************************************************************)
\* C33: a status poll that observes filled finds the Trade carrying the order
\* id in the strategy's trade list
C33_FillFindsItsTrade ==
    [][\A order_id \in timers :
          (PollQuery(order_id, "json") /\ orders[order_id].status = "filled")
              => FindTrade(trades, order_id) # 0]_vars

(***************************************************************************)
(* The two writes of a poll and the exit (strategies.py lines 138-144,     *)
(* 76-80 and 224-233).                                                     *)
(***************************************************************************)
\* C34: the quantity of every exit order submitted for a Trade is the executed
\* quantity of the Trade's filled entry order (on a spot account, that or its
\* minimum with the free base amount)
C34_ExitQuantityIsFill ==
    [][(TickStep /\ tick'.exit_orders > 0) =>
        \A i \in Marked(trades) :
            Exits(trades[i], tick'.price) =>
                LET filled == orders[trades[i].entry_id].executed_qty
                IN  IF Futures(cfg.platform)
                    THEN tick'.exit_qty = filled
                    ELSE tick'.exit_qty \in {filled, Min(tick'.free, filled)}]_vars

(***************************************************************************)
(* Closed trades (strategies.py lines 138-144 and 235-238, binance.py      *)
(* lines 447-457, bitmex.py lines 252-275).                                *)
(***************************************************************************)
\* C35: no step removes a Trade from the list, and a Trade that is closed is
\* left as it is by every step: its status, pnl, quantity and entry price
C35_ClosedTradesAreFinal ==
    [][/\ Len(trades') >= Len(trades)
       /\ \A i \in 1..Len(trades) :
             trades[i].status = "closed" => trades'[i] = trades[i]]_vars

(***************************************************************************)
(* An exit order whose submission returns nothing (strategies.py lines     *)
(* 219-238 and 76-82).                                                     *)
(***************************************************************************)
\* the handler of tick record t submitted an exit order and place_order
\* returned None
ExitUnanswered(t) == t.exit_orders = 1 /\ t.closed = 0 /\ ~t.raised

\* C36: a tick whose exit order submission returns no result leaves the Trade
\* open with its entry price, leaves ongoing_position true and opens no entry;
\* the next tick submits the exit again when it is a same-candle tick at which
\* the exit rule still holds, and otherwise submits no entry either
C36_ExitRetried ==
    [][/\ (TickStep /\ ExitUnanswered(tick')) =>
             /\ ongoing_position'
             /\ Len(trades') = Len(trades)
             /\ \A i \in OpenTrades(trades) :
                   /\ trades'[i].status = "open"
                   /\ trades'[i].entry_price = trades[i].entry_price
             /\ tick'.entry_orders = 0
       /\ (TickStep /\ ExitUnanswered(tick)) =>
             \A i \in Marked(trades) :
                 IF tick'.res = "same_candle" /\ Exits(trades[i], tick'.price)
                 THEN tick'.exit_orders = 1
                 ELSE tick'.exit_orders = 0 /\ tick'.entry_orders = 0]_vars

(***************************************************************************)
(* A one-sided BitMEX book (bitmex.py lines 238-275).                      *)
(***************************************************************************)
\* C37: an instrument update attempts the PnL arithmetic of an open Trade only
\* on a known price: no attempt is made on a side of the book that is still
\* null (such an attempt raises), and every Trade it values has its side known
C37_PnlOnlyFromKnownPrice ==
    calc.op = "instrument" =>
        /\ ~calc.raised
        /\ \A i \in Marked(trades) : SidePrice(trades[i].side, prices) # None

(***************************************************************************)
(* A subscribe message that does not go out (binance.py lines 488-508).    *)
(***************************************************************************)
\* C38: when a subscribe_channel call has returned and the send of its message
\* failed, the symbol of the call is not recorded in ws_subscriptions for the
\* channel
C38_RecordedOnlyIfSent ==
    \A t \in Threads :
        (call[t].pc = "ret" /\ call[t].sent /\ ~call[t].delivered
                            /\ Len(call[t].contracts) > 0)
            => ~Recorded(call[t].contracts[1], call[t].channel)

(***************************************************************************)
(* The subscription lists under both threads (binance.py lines 386-398 and *)
(* 488-498, root_component.py lines 142-151).                              *)
(***************************************************************************)
\* C39: in every state, whatever the interleaving of the UI thread's and the
\* worker's subscribe_channel calls, each channel's list in ws_subscriptions
\* holds every symbol at most once
C39_NoSymbolTwice ==
    \A c \in {"bookTicker", "aggTrade"} : NoDup(ws_subscriptions[c])

(***************************************************************************)
(* The tick that closes a position (strategies.py lines 76-82 and 358-370, *)
(* binance.py lines 459-466).                                              *)
(***************************************************************************)
\* C40: in the breakout variant a tick whose take-profit/stop-loss exit closes
\* a Trade submits no entry order and creates no Trade
C40_ClosingTickOpensNothing ==
    [][(TickStep /\ cfg.variant = "Breakout" /\ tick'.closed > 0) =>
          /\ tick'.entry_orders = 0
          /\ tick'.new_trades = 0]_vars

====
